---- MODULE Spec2Model ----
(***************************************************************************)
(* Model of bggfinna: the incremental run controllers                      *)
(* (fetch_finna_availability.main over bggfinna.utils, and                 *)
(* match_with_bgg.main), the BGG fetchers with their retry policy, and    *)
(* the match strategy chain of match_with_bgg.find_best_bgg_match.         *)
(*                                                                         *)
(* A store file is a sequence of tokens; "\n" ends a line.  A line is a    *)
(* header (column names) or a data row <<id, payload>>.  A crash leaves    *)
(* any prefix of the bytes that were written but not yet flushed.          *)
(***************************************************************************)
EXTENDS Integers, Sequences, FiniteSets, TLC

VARIABLES
    ctl,            \* which controller drives the store: "keyed" | "positional"
    input,          \* the input records (their ids), in file order
    store,          \* the output file: [exists, content]
    buf,            \* bytes written to the open file object and not yet flushed
    pc,             \* "start" | "loop" | "done" | "crashed"
    todo,           \* keyed: unprocessed records not yet handled in this run
    idx,            \* positional: enumerate() index of the next record
    skip_count,     \* positional: result of check_and_truncate_output_file
    file_exists,    \* positional: os.path.exists(output_file) before open()
    writer,         \* positional: the DictWriter is initialised
    inflight,       \* keyed: row written by writerow() and not yet flushed
    cut,            \* history: the store as the truncation step of this run left it
    written,        \* history: ids passed to writerow() in this run
    unprocessed0,   \* history: the unprocessed list computed at run start
    newCount,       \* rows written in this run
    processed_count,\* keyed: total_games - len(unprocessed_games)
    prevEnd,        \* history: how the previous run ended
    prevStore,      \* history: the store when the previous run ended
    openable,       \* open() of the store for reading succeeds
    fop,            \* fetcher: the operation called, "none" when idle
    fcall,          \* fetcher: the retried function that is running
    attempt,        \* fetcher: attempts made by the running function
    fstate,         \* fetcher: "idle" | "running" | "returned" | "raised"
    fvalue,         \* fetcher: the value returned or the exception raised
    flog,           \* history: one entry per provider request
    finna_game,     \* matcher: the source record given to find_best_bgg_match
    mpc,            \* matcher: "idle" | "s1" | "s2" | "s3" | "s4" | "select" |
                    \*          "matched" | "row" | "raised"
    all_matches,    \* matcher: the result list of the strategy chain
    calls,          \* history: the provider calls made for this record
    yielded,        \* history: candidates each strategy yielded
    best,           \* matcher: what find_best_bgg_match returned
    result,         \* matcher: the row main built for the record
    query,          \* one strategy alone: its inputs and the provider answers
    outcome,        \* one strategy alone: what it left behind
    picked,         \* one strategy alone: what the disambiguator made of it
    qpc,            \* one strategy alone: "idle" | "drawn" | "applied" | "selected"
    given_title,    \* normalizer: the argument, <<>> for None, <<t>> for text t
    normalized,     \* normalizer: the result of one application
    renormalized,   \* normalizer: the result of a second application
    npc             \* normalizer: "idle" | "given" | "once" | "twice"

storeVars == <<ctl, input, store, buf, pc, todo, idx, skip_count, file_exists,
               writer, inflight, cut, written, unprocessed0,
               newCount, processed_count, prevEnd, prevStore, openable>>

fetchVars == <<fop, fcall, attempt, fstate, fvalue, flog>>

matchVars == <<finna_game, mpc, all_matches, calls, yielded, best, result>>

strategyVars == <<query, outcome, picked, qpc>>

normalizeVars == <<given_title, normalized, renormalized, npc>>

pureVars == <<strategyVars, normalizeVars>>

nonStoreVars == <<fetchVars, matchVars, pureVars>>

vars == <<storeVars, fetchVars, matchVars, pureVars>>

-----------------------------------------------------------------------------
(* Bounds *)

MaxInput == 3       \* longest input list drawn from arbitrary ids
MaxRecords == 11    \* longest input list of distinct ids
MaxResults == 2     \* longest list a title search returns
MaxTitleLen == 3    \* longest title given to the normalizer on its own

(* Program constants *)

FlushEvery == 10    \* match_with_bgg.main flushes when (i + 1) % 10 == 0
MAX_RETRIES == 3    \* retry_config: BGGFINNA_MAX_RETRIES default
BASE_DELAY == 1     \* retry_config: BGGFINNA_BASE_DELAY default
BGG_202_DELAY == 2  \* retry_config: BGGFINNA_BGG_202_DELAY default
max_retries == 3    \* match_with_bgg: default of the max_retries parameter

-----------------------------------------------------------------------------
(* Sequences *)

NL == "\n"

IsPrefix(s, t) == Len(s) <= Len(t) /\ SubSeq(t, 1, Len(s)) = s

Range(s) == {s[i] : i \in 1..Len(s)}

(* bytes.rfind(b'\n'): 1-based position of the last newline, 0 when none *)
rfind(content) ==
    LET hits == {i \in 1..Len(content) : content[i] = NL}
    IN IF hits = {} THEN 0 ELSE CHOOSE i \in hits : \A j \in hits : j <= i

(* position of the first newline, 0 when none *)
find(content) ==
    LET hits == {i \in 1..Len(content) : content[i] = NL}
    IN IF hits = {} THEN 0 ELSE CHOOSE i \in hits : \A j \in hits : i <= j

(* The lines of a text file as a reader sees them: each line without its   *)
(* newline; an unterminated last line is a line too.                       *)
RECURSIVE SplitLines(_)
SplitLines(content) ==
    IF content = <<>> THEN <<>>
    ELSE LET p == find(content)
         IN IF p = 0 THEN <<content>>
            ELSE <<SubSeq(content, 1, p - 1)>>
                    \o SplitLines(SubSeq(content, p + 1, Len(content)))

(* str.strip() on an id: ids are Finna record ids, the blank ones strip to *)
(* the empty string.                                                       *)
Strip(s) == IF s = " " THEN "" ELSE s

-----------------------------------------------------------------------------
(* The store file *)

NoFile == [exists |-> FALSE, content |-> <<>>]

File(content) == [exists |-> TRUE, content |-> content]

(* fetch_finna_availability.main: fieldnames, first column finna_id *)
KeyedHeader == <<"finna_id", "title", NL>>

(* match_with_bgg.main: fieldnames = list(result.keys()), first column id *)
PositionalHeader == <<"id", "match_type", NL>>

Row(id, payload) == <<id, payload, NL>>

(* a byte that is not UTF-8: reading it from a file opened with            *)
(* encoding='utf-8' raises UnicodeDecodeError                              *)
BadByte == "\\xff"

(* a content that a text-mode read decodes *)
Decodable(content) == BadByte \notin Range(content)

(* a truncation that does nothing *)
truncate_incomplete_output_Skipped(f) == f

(* a truncation that cuts at content[:last_newline] *)
truncate_incomplete_output_DropsNewline(f) ==
    IF ~f.exists THEN f
    ELSE IF f.content = <<>> THEN f
    ELSE IF f.content[Len(f.content)] # NL
         THEN LET last_newline == rfind(f.content)
              IN IF last_newline # 0
                 THEN File(SubSeq(f.content, 1, last_newline - 1))
                 ELSE NoFile
         ELSE f

(* utils.truncate_incomplete_output: the file it leaves *)
truncate_incomplete_output(f) ==
    IF ~f.exists THEN f
    ELSE IF f.content = <<>> THEN f
    ELSE IF f.content[Len(f.content)] # NL
         THEN LET last_newline == rfind(f.content)
              IN IF last_newline # 0
                 THEN File(SubSeq(f.content, 1, last_newline))
                 ELSE NoFile
         ELSE f

(* csv.DictReader over the file: the first line gives the field names, a   *)
(* later line is a row.  row.get(id_column, '') is '' when the header has  *)
(* no such column and None when the row is shorter than the header; the    *)
(* .strip() of None raises and the except clause returns the empty set,    *)
(* as it does when the content does not decode.                            *)
get_processed_ids(f, id_column) ==
    IF ~f.exists THEN {}
    ELSE IF ~Decodable(f.content) THEN {}
    ELSE LET lines == SplitLines(f.content)
         IN IF Len(lines) = 0 THEN {}
            ELSE LET header == lines[1]
                     cols == {c \in 1..Len(header) : header[c] = id_column}
                 IN IF cols = {} THEN {}
                    ELSE LET col == CHOOSE c \in cols : \A d \in cols : d <= c
                             rows == 2..Len(lines)
                         IN IF \E r \in rows : Len(lines[r]) < col THEN {}
                            ELSE {Strip(lines[r][col]) : r \in rows} \ {""}

(* a filter that keeps the records whose id is processed already *)
FilterUnprocessed_KeepsProcessed(items, processed_ids) ==
    LET keep(item) == Strip(item) # ""
    IN SelectSeq(items, keep)

(* utils.get_unprocessed_items after its truncation step: the filter *)
FilterUnprocessed(items, processed_ids) ==
    LET keep(item) == Strip(item) # "" /\ Strip(item) \notin processed_ids
    IN SelectSeq(items, keep)

(* utils.get_unprocessed_items: the file it leaves and the list it returns *)
get_unprocessed_items(input_items, f, output_id_field) ==
    LET f1 == truncate_incomplete_output(f)
        processed_ids == get_processed_ids(f1, output_id_field)
    IN [file |-> f1,
        processed |-> processed_ids,
        unprocessed |-> FilterUnprocessed(input_items, processed_ids)]

(* a header decision that is always yes *)
should_write_header_Always(f) == TRUE

(* utils.should_write_header; readline() decodes a chunk of 8192 bytes,    *)
(* which holds the whole of a store as short as the stores here, so that   *)
(* a byte that does not decode raises wherever it stands and the except    *)
(* clause returns True                                                     *)
should_write_header(f) ==
    IF ~f.exists THEN TRUE
    ELSE IF ~Decodable(f.content) THEN TRUE
    ELSE LET lines == SplitLines(f.content)
             first_line == IF Len(lines) = 0 THEN <<>> ELSE lines[1]
         IN \A k \in 1..Len(first_line) : Strip(first_line[k]) = ""

(* a line count that takes one line too many for the header *)
check_and_truncate_output_file_SkipOneLess(f) ==
    IF ~f.exists THEN [file |-> f, skip |-> 0]
    ELSE IF f.content = <<>> THEN [file |-> f, skip |-> 0]
    ELSE IF f.content[Len(f.content)] # NL /\ rfind(f.content) = 0
         THEN [file |-> NoFile, skip |-> 0]
    ELSE LET f1 == IF f.content[Len(f.content)] # NL
                   THEN File(SubSeq(f.content, 1, rfind(f.content)))
                   ELSE f
             lines == SplitLines(f1.content)
         IN [file |-> f1,
             skip |-> IF Len(lines) - 2 > 0 THEN Len(lines) - 2 ELSE 0]

(* match_with_bgg.check_and_truncate_output_file: the file it leaves and   *)
(* the number of records to skip                                           *)
check_and_truncate_output_file(f) ==
    IF ~f.exists THEN [file |-> f, skip |-> 0]
    ELSE IF f.content = <<>> THEN [file |-> f, skip |-> 0]
    ELSE IF f.content[Len(f.content)] # NL /\ rfind(f.content) = 0
         THEN [file |-> NoFile, skip |-> 0]
    ELSE LET f1 == IF f.content[Len(f.content)] # NL
                   THEN File(SubSeq(f.content, 1, rfind(f.content)))
                   ELSE f
             lines == SplitLines(f1.content)
         IN [file |-> f1,
             skip |-> IF Len(lines) - 1 > 0 THEN Len(lines) - 1 ELSE 0]

-----------------------------------------------------------------------------
(* Input lists *)

Ids == {"a", "b", "", " "}

Names == <<"r01", "r02", "r03", "r04", "r05", "r06", "r07", "r08", "r09",
           "r10", "r11", "r12", "r13", "r14">>

ShortInputs == UNION {[1..n -> Ids] : n \in 0..MaxInput}

LongInputs == {SubSeq(Names, 1, n) : n \in 1..MaxRecords}

UniqueIds(items) ==
    \A i, j \in 1..Len(items) : items[i] = items[j] => i = j

Min(a, b) == IF a < b THEN a ELSE b

-----------------------------------------------------------------------------
(* The run controllers *)

(* nothing has run on the store yet *)
StoreFresh ==
    /\ store = NoFile
    /\ buf = <<>>
    /\ pc = "start"
    /\ todo = <<>>
    /\ idx = 0
    /\ skip_count = 0
    /\ file_exists = FALSE
    /\ writer = FALSE
    /\ inflight = <<>>
    /\ cut = NoFile
    /\ written = <<>>
    /\ unprocessed0 = <<>>
    /\ newCount = 0
    /\ processed_count = 0
    /\ prevEnd = "none"
    /\ prevStore = NoFile
    /\ openable = TRUE

InitStore ==
    /\ ctl \in {"keyed", "positional"}
    /\ input \in (IF ctl = "keyed" THEN ShortInputs
                  ELSE ShortInputs \cup LongInputs)
    /\ StoreFresh

(* no controller is modelled: the store variables stay as they are *)
StoreIdle ==
    /\ ctl = "keyed"
    /\ input = <<>>
    /\ StoreFresh

(* What every run start records, whichever controller runs *)
BeginRun ==
    /\ pc \in {"start", "done", "crashed"}
    /\ prevEnd' = (IF pc = "start" THEN "none" ELSE pc)
    /\ prevStore' = store
    /\ inflight' = <<>>
    /\ written' = <<>>
    /\ newCount' = 0
    /\ UNCHANGED <<ctl, input, openable>>
    /\ UNCHANGED nonStoreVars

(* fetch_finna_availability.main, lines 108-121: no games in the input *)
KeyedNoGames ==
    /\ ctl = "keyed"
    /\ input = <<>>
    /\ BeginRun
    /\ pc' = "done"
    /\ cut' = store
    /\ buf' = <<>>
    /\ todo' = <<>>
    /\ unprocessed0' = <<>>
    /\ processed_count' = 0
    /\ UNCHANGED <<store, idx, skip_count, file_exists, writer>>

(* fetch_finna_availability.main, lines 123-162: get_unprocessed_items,    *)
(* the early return, should_write_header and the open() of the store       *)
KeyedStartRun ==
    /\ ctl = "keyed"
    /\ input # <<>>
    /\ openable \/ ~store.exists
    /\ BeginRun
    /\ LET r == get_unprocessed_items(input, store, "finna_id")
           write_header == should_write_header(r.file)
       IN /\ cut' = r.file
          /\ unprocessed0' = r.unprocessed
          /\ todo' = r.unprocessed
          /\ processed_count' = Len(input) - Len(r.unprocessed)
          /\ IF r.unprocessed = <<>>
             THEN /\ pc' = "done"
                  /\ store' = r.file
                  /\ buf' = <<>>
             ELSE /\ pc' = "loop"
                  /\ store' = (IF write_header THEN File(<<>>)
                               ELSE File(r.file.content))
                  /\ buf' = (IF write_header THEN KeyedHeader ELSE <<>>)
    /\ UNCHANGED <<idx, skip_count, file_exists, writer>>

(* fetch_finna_availability.main, line 124: the store exists and open()   *)
(* raises in utils.truncate_incomplete_output, line 61; nothing catches    *)
(* the exception and the run ends with it                                  *)
KeyedStartRaises ==
    /\ ctl = "keyed"
    /\ input # <<>>
    /\ ~openable /\ store.exists
    /\ BeginRun
    /\ pc' = "raised"
    /\ cut' = store
    /\ buf' = <<>>
    /\ todo' = <<>>
    /\ unprocessed0' = <<>>
    /\ processed_count' = 0
    /\ UNCHANGED <<store, idx, skip_count, file_exists, writer>>

(* fetch_finna_availability.main, lines 165-180 and 183-192: the fetch and *)
(* writer.writerow(); a failed fetch writes the empty record               *)
KeyedWriteRow ==
    /\ ctl = "keyed"
    /\ pc = "loop"
    /\ todo # <<>>
    /\ inflight = <<>>
    /\ \E availability_info \in {"ok", "empty"} :
          LET game_id == Head(todo)
              row == Row(game_id, availability_info)
          IN /\ buf' = buf \o row
             /\ inflight' = row
             /\ written' = Append(written, game_id)
    /\ UNCHANGED <<ctl, input, openable, store, pc, todo, idx, skip_count, file_exists,
                   writer, cut, unprocessed0, newCount,
                   processed_count, prevEnd, prevStore>>
    /\ UNCHANGED nonStoreVars

(* fetch_finna_availability.main, lines 181, 193 and 195: csvfile.flush()  *)
(* and the end of the iteration                                            *)
KeyedFlushRow ==
    /\ ctl = "keyed"
    /\ pc = "loop"
    /\ inflight # <<>>
    /\ store' = File(store.content \o buf)
    /\ buf' = <<>>
    /\ inflight' = <<>>
    /\ todo' = Tail(todo)
    /\ newCount' = newCount + 1
    /\ UNCHANGED <<ctl, input, openable, pc, idx, skip_count, file_exists, writer, cut,
                   written, unprocessed0, processed_count, prevEnd, prevStore>>
    /\ UNCHANGED nonStoreVars

(* fetch_finna_availability.main, lines 197-204: the with block closes the *)
(* file                                                                    *)
KeyedFinish ==
    /\ ctl = "keyed"
    /\ pc = "loop"
    /\ todo = <<>>
    /\ inflight = <<>>
    /\ store' = File(store.content \o buf)
    /\ buf' = <<>>
    /\ pc' = "done"
    /\ UNCHANGED <<ctl, input, openable, todo, idx, skip_count, file_exists, writer,
                   inflight, cut, written, unprocessed0, newCount,
                   processed_count, prevEnd, prevStore>>
    /\ UNCHANGED nonStoreVars

(* match_with_bgg.main, lines 451-475: check_and_truncate_output_file, the *)
(* open() of the store and the skipping of the first skip_count records    *)
PositionalStartRun ==
    /\ ctl = "positional"
    /\ BeginRun
    /\ LET r == check_and_truncate_output_file(store)
       IN /\ skip_count' = r.skip
          /\ file_exists' = r.file.exists
          /\ store' = File(r.file.content)
          /\ cut' = r.file
          /\ idx' = Min(r.skip, Len(input))
          /\ processed_count' = Min(r.skip, Len(input))
          /\ unprocessed0' = SubSeq(input, Min(r.skip, Len(input)) + 1,
                                    Len(input))
    /\ buf' = <<>>
    /\ writer' = FALSE
    /\ pc' = "loop"
    /\ UNCHANGED todo

(* match_with_bgg.main, line 536: the header goes before the first row of  *)
(* the run                                                                 *)
HeaderDue(w, exists, skip) == ~w /\ (~exists \/ skip = 0)

(* match_with_bgg.main, lines 541-542: the periodic flush *)
FlushDue(i) == (i + 1) % FlushEvery = 0

(* match_with_bgg.main, lines 477-543: one iteration of the loop           *)
PositionalWriteRow ==
    /\ ctl = "positional"
    /\ pc = "loop"
    /\ idx < Len(input)
    /\ LET record == input[idx + 1]
           header == IF HeaderDue(writer, file_exists, skip_count)
                     THEN PositionalHeader ELSE <<>>
           out == header \o Row(record, "m")
       IN /\ IF FlushDue(idx)
             THEN /\ store' = File(store.content \o buf \o out)
                  /\ buf' = <<>>
             ELSE /\ buf' = buf \o out
                  /\ store' = store
          /\ written' = Append(written, record)
    /\ writer' = TRUE
    /\ idx' = idx + 1
    /\ newCount' = newCount + 1
    /\ UNCHANGED <<ctl, input, openable, pc, todo, skip_count, file_exists, inflight,
                   cut, unprocessed0, processed_count, prevEnd, prevStore>>
    /\ UNCHANGED nonStoreVars

(* match_with_bgg.main, line 545: the with block closes the file *)
PositionalFinish ==
    /\ ctl = "positional"
    /\ pc = "loop"
    /\ idx = Len(input)
    /\ store' = File(store.content \o buf)
    /\ buf' = <<>>
    /\ pc' = "done"
    /\ UNCHANGED <<ctl, input, openable, todo, idx, skip_count, file_exists, writer,
                   inflight, cut, written, unprocessed0, newCount,
                   processed_count, prevEnd, prevStore>>
    /\ UNCHANGED nonStoreVars

(* The process dies while the store is open: what was flushed stays, and   *)
(* of the buffered bytes any prefix may have reached the file.             *)
Crash ==
    /\ pc = "loop"
    /\ \E k \in 0..Len(buf) :
          store' = File(store.content \o SubSeq(buf, 1, k))
    /\ buf' = <<>>
    /\ pc' = "crashed"
    /\ UNCHANGED <<ctl, input, openable, todo, idx, skip_count, file_exists, writer,
                   inflight, cut, written, unprocessed0, newCount,
                   processed_count, prevEnd, prevStore>>
    /\ UNCHANGED nonStoreVars

(* no fetcher operation is running *)
FetchIdle ==
    /\ fop = "none"
    /\ fcall = "none"
    /\ attempt = 0
    /\ fstate = "idle"
    /\ fvalue = "none"
    /\ flog = <<>>

(* no record is being matched *)
MatchIdle ==
    /\ finna_game = [title |-> <<>>, alternativeTitles |-> <<>>, year |-> "",
                     authors |-> [form |-> "empty", names |-> <<>>]]
    /\ mpc = "idle"
    /\ all_matches = <<>>
    /\ calls = <<>>
    /\ yielded = <<0, 0, 0, 0>>
    /\ best = <<>>
    /\ result = <<>>

(* no strategy is run on its own *)
StrategyIdle ==
    /\ query = [k |-> 0, titles |-> <<>>, year |-> 0, authors |-> <<>>,
                resp |-> <<>>, aw |-> <<>>, ok |-> {}]
    /\ outcome = [matches |-> <<>>, calls |-> <<>>, raised |-> FALSE]
    /\ picked = <<>>
    /\ qpc = "idle"

(* no title is being normalized *)
NormalizeIdle ==
    /\ given_title = <<>>
    /\ normalized = <<>>
    /\ renormalized = <<>>
    /\ npc = "idle"

PureIdle == StrategyIdle /\ NormalizeIdle

Init == InitStore /\ FetchIdle /\ MatchIdle /\ PureIdle

Next ==
    \/ KeyedNoGames
    \/ KeyedStartRun
    \/ KeyedWriteRow
    \/ KeyedFlushRow
    \/ KeyedFinish
    \/ PositionalStartRun
    \/ PositionalWriteRow
    \/ PositionalFinish
    \/ Crash

Spec == Init /\ [][Next]_vars

-----------------------------------------------------------------------------
(* Reading the store for the properties *)

(* store content at run start, after the truncation step *)
Base == cut.content

(* the longest prefix of a content that ends with a newline *)
CompletePart(content) ==
    LET ends == {k \in 0..Len(content) : k = 0 \/ content[k] = NL}
        last == CHOOSE k \in ends : \A j \in ends : j <= k
    IN SubSeq(content, 1, last)

(* the unterminated last line of a content, empty when there is none *)
PartialTail(content) ==
    SubSeq(content, Len(CompletePart(content)) + 1, Len(content))

EndsInPartialLine(f) == f.exists /\ PartialTail(f.content) # <<>>

IsHeaderLine(line) == IsPrefix(line, KeyedHeader) \/ IsPrefix(line, PositionalHeader)

(* the ids of the data rows of a content, in file order, the id of an      *)
(* unterminated last row included                                          *)
RowIdsIn(content) ==
    LET lines == SplitLines(content)
        isRow(line) == Len(line) >= 1 /\ ~IsHeaderLine(line)
        rows == SelectSeq(lines, isRow)
    IN [k \in 1..Len(rows) |-> rows[k][1]]

Count(x, s) == Cardinality({k \in 1..Len(s) : s[k] = x})

C3_PartialRowCutAndReprocessed ==
    (ctl = "keyed" /\ pc # "start" /\ input # <<>> /\ UniqueIds(input)
        /\ EndsInPartialLine(prevStore)) =>
        /\ Base = CompletePart(prevStore.content)
        /\ cut.exists = (CompletePart(prevStore.content) # <<>>)
        /\ PartialTail(Base) = <<>>
        /\ LET tail == PartialTail(prevStore.content)
           IN ~IsHeaderLine(tail) =>
                 /\ tail[1] \in Range(unprocessed0)
                 /\ tail[1] \notin Range(RowIdsIn(Base))

(* a keyed run started on a store that ended in a partial data row which   *)
(* followed complete rows                                                  *)
C3_Witness ==
    /\ ctl = "keyed"
    /\ pc = "loop"
    /\ UniqueIds(input)
    /\ EndsInPartialLine(prevStore)
    /\ ~IsHeaderLine(PartialTail(prevStore.content))
    /\ Len(RowIdsIn(Base)) >= 1

(* C4: the truncation step of either controller leaves exactly the part of *)
(* the store up to its last newline, every terminated row in its place,    *)
(* and leaves a missing, empty or newline-terminated store as it was.      *)
C4_TruncationRemovesOnlyPartialSuffix ==
    (pc # "start") =>
        /\ Base = CompletePart(prevStore.content)
        /\ IsPrefix(Base, prevStore.content)
        /\ ~EndsInPartialLine(prevStore) => cut = prevStore

(* the step has cut a partial row off a store that holds complete rows *)
C4_Witness ==
    /\ pc = "loop"
    /\ EndsInPartialLine(prevStore)
    /\ Len(RowIdsIn(Base)) >= 2
    /\ Base # prevStore.content

(* the rows that stand complete in the store behind what it held at run   *)
(* start                                                                   *)
DurableRowIds ==
    LET whole == CompletePart(store.content)
    IN RowIdsIn(SubSeq(whole, Len(Base) + 1, Len(whole)))

(* C5: after a crash at most one of the rows written in the run, the row   *)
(* in flight, is missing from the store or partial; the rows written       *)
(* before it stand complete behind the rows the store held at run start.   *)
C5_CrashLosesAtMostInFlightRow ==
    pc = "crashed" =>
        /\ IsPrefix(Base, store.content)
        /\ IsPrefix(DurableRowIds, written)
        /\ Len(written) - Len(DurableRowIds) <= 1

(* C6, state part: the rows a run has appended are those of a prefix of    *)
(* its unprocessed list, which is in input order, and the store begins     *)
(* with what it held at run start.                                         *)
C6_RunAppendsInInputOrder ==
    (pc # "start") =>
        /\ IsPrefix(Base, store.content)
        /\ IsPrefix(written, unprocessed0)
        /\ IsPrefix(RowIdsIn(SubSeq(store.content, Len(Base) + 1,
                                    Len(store.content))), written)

(* C6: rows are appended in input order, and the store content at a run    *)
(* start stays a prefix of the store in every later step of this and of    *)
(* every later run.                                                        *)
C6_PersistedRowsStayPrefix ==
    /\ [](C6_RunAppendsInInputOrder)
    /\ [][IsPrefix(Base, store'.content) /\ IsPrefix(Base, cut'.content)]_vars

(* a run resumed after a crash has appended rows behind rows of the        *)
(* earlier run                                                             *)
C6_Witness ==
    /\ prevEnd = "crashed"
    /\ pc = "done"
    /\ Len(RowIdsIn(Base)) >= 1
    /\ Len(written) >= 2
    /\ Len(store.content) > Len(Base)

-----------------------------------------------------------------------------
(* The candidate fetchers and their retry policy *)

(* what one provider request can end in *)
Transient == {"timeout", "http_error", "processing_202"}

Outcomes == Transient \cup {"ok", "ok_empty", "malformed"}

(* the operations decorated with bgg_api_retry *)
RetriedOps == {"bggapi.search_bgg_by_title", "bggapi.search_bgg_by_author",
               "utils.get_bgg_game_details"}

(* the operations of match_with_bgg, which loop over range(max_retries) *)
LoopOps == {"match_with_bgg.search_bgg_by_title",
            "match_with_bgg.get_bgg_game_details"}

(* the function an operation runs first *)
FirstCall(op) ==
    CASE op \in {"bggapi.search_bgg_by_title",
                 "match_with_bgg.search_bgg_by_title"} -> "search_bgg_by_title"
      [] op = "bggapi.search_bgg_by_author" -> "_search_designer_id"
      [] OTHER -> "get_bgg_game_details"

(* _get_games_by_designer_id has no branch for status 202: such a response *)
(* is parsed like any other body                                           *)
OutcomesOf(call) ==
    IF call = "_get_games_by_designer_id" THEN Outcomes \ {"processing_202"}
    ELSE Outcomes

Raises(e) == [exc |-> TRUE, v |-> e]

Returns(v) == [exc |-> FALSE, v |-> v]

(* bggapi.parse_bgg_search_response: ParseError is caught, [] returned *)
parse_bgg_search_response(body) ==
    CASE body = "ok" -> "candidates"
      [] body = "ok_empty" -> "empty"
      [] OTHER -> "empty"

(* utils.parse_bgg_thing_response: None without a boardgame item and on    *)
(* ParseError                                                              *)
parse_bgg_thing_response(body) ==
    CASE body = "ok" -> "details"
      [] body = "ok_empty" -> "None"
      [] OTHER -> "None"

(* a name search that hands on an id whatever it found *)
Body_DesignerIdAlways(call, o) ==
    IF o \in {"timeout", "http_error"} THEN Raises("RequestException")
    ELSE IF o = "processing_202" THEN Returns("Response202")
    ELSE CASE call = "search_bgg_by_title" ->
                 Returns(parse_bgg_search_response(o))
           [] call = "_search_designer_id" -> Returns("designer_id")
           [] call = "_get_games_by_designer_id" ->
                 IF o = "malformed" THEN Raises("JSONDecodeError")
                 ELSE Returns(IF o = "ok" THEN "game_ids" ELSE "empty")
           [] OTHER -> Returns(parse_bgg_thing_response(o))

(* one execution of the body of a decorated function *)
Body(call, o) ==
    IF o \in {"timeout", "http_error"} THEN Raises("RequestException")
    ELSE IF o = "processing_202" THEN Returns("Response202")
    ELSE CASE call = "search_bgg_by_title" ->
                 Returns(parse_bgg_search_response(o))
           [] call = "_search_designer_id" ->
                 Returns(IF o = "ok" THEN "designer_id" ELSE "None")
           [] call = "_get_games_by_designer_id" ->
                 IF o = "malformed" THEN Raises("JSONDecodeError")
                 ELSE Returns(IF o = "ok" THEN "game_ids" ELSE "empty")
           [] OTHER -> Returns(parse_bgg_thing_response(o))

(* retry_config.bgg_api_retry, retry=: RequestException or a 202 result *)
NeedsRetry(r) ==
    \/ r.exc /\ r.v = "RequestException"
    \/ ~r.exc /\ r.v = "Response202"

(* retry_config.bgg_api_retry, wait=wait_chain(wait_fixed(BGG_202_DELAY),  *)
(* wait_fixed(BASE_DELAY)): the first strategy after the first attempt,    *)
(* the last one after every later attempt                                  *)
wait_chain(attempt_number) ==
    IF attempt_number = 1 THEN BGG_202_DELAY ELSE BASE_DELAY

(* a retry policy that stops one attempt late *)
bgg_api_retry_OneMore(attempt_number, r) ==
    IF ~NeedsRetry(r) THEN [do |-> "finish", wait |-> 0]
    ELSE IF attempt_number > MAX_RETRIES THEN [do |-> "RetryError", wait |-> 0]
    ELSE [do |-> "retry", wait |-> wait_chain(attempt_number)]

(* retry_config.bgg_api_retry: what tenacity does with the result of       *)
(* attempt attempt_number.  No reraise and no retry_error_callback are     *)
(* given, so stop_after_attempt ends in RetryError.                        *)
bgg_api_retry(attempt_number, r) ==
    IF ~NeedsRetry(r) THEN [do |-> "finish", wait |-> 0]
    ELSE IF attempt_number >= MAX_RETRIES THEN [do |-> "RetryError", wait |-> 0]
    ELSE [do |-> "retry", wait |-> wait_chain(attempt_number)]

(* match_with_bgg.search_bgg_by_title and get_bgg_game_details: what the   *)
(* loop does with the request of iteration attempt (0-based)               *)
retry_loop(att, o) ==
    IF o = "processing_202"
    THEN [do |-> IF att + 1 < max_retries THEN "retry" ELSE "default",
          wait |-> 2]
    ELSE IF o \in {"timeout", "http_error"}
    THEN [do |-> IF att + 1 < max_retries THEN "retry" ELSE "default",
          wait |-> IF att < max_retries - 1 THEN 1 ELSE 0]
    ELSE [do |-> "finish", wait |-> 0]

LogEntry(call, o, wait) == [call |-> call, outcome |-> o, wait |-> wait]

(* a caller calls one fetcher operation *)
FetchBegin ==
    /\ fstate \in {"idle", "returned", "raised"}
    /\ \E op \in RetriedOps \cup LoopOps :
          /\ fop' = op
          /\ fcall' = FirstCall(op)
    /\ attempt' = 0
    /\ fstate' = "running"
    /\ fvalue' = "none"
    /\ flog' = <<>>
    /\ UNCHANGED <<storeVars, matchVars, pureVars>>

(* one attempt of a function decorated with bgg_api_retry, and what        *)
(* follows it: a retry, the return, the exception, or the second step of   *)
(* search_bgg_by_author                                                    *)
FetchAttemptRetried ==
    /\ fstate = "running"
    /\ fop \in RetriedOps
    /\ \E o \in OutcomesOf(fcall) :
          LET r == Body(fcall, o)
              t == bgg_api_retry(attempt + 1, r)
          IN /\ flog' = Append(flog, LogEntry(fcall, o, t.wait))
             /\ CASE t.do = "retry" ->
                       /\ attempt' = attempt + 1
                       /\ UNCHANGED <<fcall, fstate, fvalue>>
                  [] t.do = "RetryError" ->
                       /\ attempt' = attempt + 1
                       /\ fstate' = "raised"
                       /\ fvalue' = "RetryError"
                       /\ UNCHANGED fcall
                  [] t.do = "finish" /\ r.exc ->
                       /\ attempt' = attempt + 1
                       /\ fstate' = "raised"
                       /\ fvalue' = r.v
                       /\ UNCHANGED fcall
                  [] t.do = "finish" /\ ~r.exc
                        /\ fcall = "_search_designer_id" /\ r.v # "None" ->
                       /\ fcall' = "_get_games_by_designer_id"
                       /\ attempt' = 0
                       /\ UNCHANGED <<fstate, fvalue>>
                  [] OTHER ->
                       /\ attempt' = attempt + 1
                       /\ fstate' = "returned"
                       /\ fvalue' = (IF fcall = "_search_designer_id"
                                     THEN "empty" ELSE r.v)
                       /\ UNCHANGED fcall
    /\ UNCHANGED fop
    /\ UNCHANGED <<storeVars, matchVars, pureVars>>

(* one iteration of the retry loop of a match_with_bgg fetcher *)
FetchAttemptLoop ==
    /\ fstate = "running"
    /\ fop \in LoopOps
    /\ \E o \in OutcomesOf(fcall) :
          LET t == retry_loop(attempt, o)
              r == Body(fcall, o)
          IN /\ flog' = Append(flog, LogEntry(fcall, o, t.wait))
             /\ attempt' = attempt + 1
             /\ CASE t.do = "retry" -> UNCHANGED <<fstate, fvalue>>
                  [] t.do = "default" ->
                       /\ fstate' = "returned"
                       /\ fvalue' = (IF fcall = "search_bgg_by_title"
                                     THEN "empty" ELSE "None")
                  [] OTHER ->
                       /\ fstate' = "returned"
                       /\ fvalue' = r.v
    /\ UNCHANGED <<fop, fcall>>
    /\ UNCHANGED <<storeVars, matchVars, pureVars>>

InitFetch == StoreIdle /\ FetchIdle /\ MatchIdle /\ PureIdle

NextFetch ==
    \/ FetchBegin
    \/ FetchAttemptRetried
    \/ FetchAttemptLoop

SpecFetch == InitFetch /\ [][NextFetch]_vars

(* the requests made by the function that ran last *)
LastCallLog ==
    LET last == flog[Len(flog)].call
        mine(e) == e.call = last
    IN SelectSeq(flog, mine)

FetchEnded == fstate \in {"returned", "raised"}

EmptyResult == fstate = "returned" /\ fvalue \in {"empty", "None"}

(* C8: an operation whose attempts all ended in a transport error or in    *)
(* the 202 signal, up to the last allowed attempt, returns the empty       *)
(* result (empty list, None for details) and raises nothing.               *)
C8_ExhaustedRetriesReturnEmpty ==
    (/\ FetchEnded
     /\ Len(LastCallLog) = MAX_RETRIES
     /\ \A k \in 1..Len(LastCallLog) : LastCallLog[k].outcome \in Transient)
        => EmptyResult

(* C9: an operation whose last response could not be parsed returns the    *)
(* empty result and raises nothing.                                        *)
C9_MalformedResponseReturnsEmpty ==
    (FetchEnded /\ flog[Len(flog)].outcome = "malformed") => EmptyResult

-----------------------------------------------------------------------------
(* Strings: a title or a name is a sequence of characters *)

Letters == {"a", "b", "c", "d", "k", "q", "z"}

Capitals == {"A", "B", "K"}

Punctuation == {":", "!"}

Chars == Letters \cup Capitals \cup Punctuation \cup {" "}

(* str.lower() on one character *)
LowerChar(c) ==
    CASE c = "A" -> "a"
      [] c = "B" -> "b"
      [] c = "K" -> "k"
      [] OTHER -> c

(* str.lower() *)
lower(str) == [i \in 1..Len(str) |-> LowerChar(str[i])]

(* str.translate(str.maketrans('', '', string.punctuation)) *)
RemovePunctuation(str) ==
    LET keep(c) == c \notin Punctuation
    IN SelectSeq(str, keep)

(* str.split(): the words between runs of whitespace *)
RECURSIVE split(_)
split(str) ==
    IF str = <<>> THEN <<>>
    ELSE IF str[1] = " " THEN split(Tail(str))
    ELSE LET spaces == {i \in 1..Len(str) : str[i] = " "}
             stop == IF spaces = {} THEN Len(str) + 1
                     ELSE CHOOSE i \in spaces : \A j \in spaces : i <= j
         IN <<SubSeq(str, 1, stop - 1)>>
               \o split(SubSeq(str, stop, Len(str)))

(* ' '.join(words) *)
RECURSIVE join(_)
join(words) ==
    IF words = <<>> THEN <<>>
    ELSE IF Len(words) = 1 THEN words[1]
    ELSE words[1] \o <<" ">> \o join(Tail(words))

(* a normalizer that collapses the whitespace before it removes the       *)
(* punctuation                                                             *)
normalize_title_for_matching_CollapseFirst(title) ==
    IF title = <<>> THEN <<>>
    ELSE RemovePunctuation(join(split(lower(title))))

(* match_with_bgg.normalize_title_for_matching; re.sub(r'\s+', ' ', t)     *)
(* followed by strip() leaves the words joined by single spaces            *)
normalize_title_for_matching(title) ==
    IF title = <<>> THEN <<>>
    ELSE join(split(RemovePunctuation(lower(title))))

(* the Python operator in on two strings *)
Contains(sub, str) ==
    \E i \in 0..(Len(str) - Len(sub)) : SubSeq(str, i + 1, i + Len(sub)) = sub

(* length of the longest common subsequence of two strings *)
RECURSIVE LCS(_, _)
LCS(x, y) ==
    IF x = <<>> \/ y = <<>> THEN 0
    ELSE IF x[1] = y[1] THEN 1 + LCS(Tail(x), Tail(y))
    ELSE LET u == LCS(Tail(x), y)
             v == LCS(x, Tail(y))
         IN IF u >= v THEN u ELSE v

(* character-level ratio of two strings, 0..100, rounded *)
ratio(x, y) ==
    LET total == Len(x) + Len(y)
    IN IF total = 0 THEN 100
       ELSE (400 * LCS(x, y) + total) \div (2 * total)

CharOrd(c) ==
    CASE c = " " -> 0 [] c = "!" -> 1 [] c = ":" -> 2
      [] c = "A" -> 3 [] c = "B" -> 4 [] c = "K" -> 5
      [] c = "a" -> 6 [] c = "b" -> 7 [] c = "c" -> 8 [] c = "d" -> 9
      [] c = "k" -> 10 [] c = "q" -> 11 [] OTHER -> 12

(* x <= y for two words, in character order *)
RECURSIVE WordLeq(_, _)
WordLeq(x, y) ==
    IF x = <<>> THEN TRUE
    ELSE IF y = <<>> THEN FALSE
    ELSE IF x[1] = y[1] THEN WordLeq(Tail(x), Tail(y))
    ELSE CharOrd(x[1]) < CharOrd(y[1])

(* sorted(words) *)
RECURSIVE sorted(_)
sorted(words) ==
    IF words = <<>> THEN <<>>
    ELSE LET least == CHOOSE i \in 1..Len(words) :
                         \A j \in 1..Len(words) :
                            /\ WordLeq(words[i], words[j])
                            /\ (WordLeq(words[j], words[i]) => i <= j)
             rest == [k \in 1..(Len(words) - 1) |->
                         IF k < least THEN words[k] ELSE words[k + 1]]
         IN <<words[least]>> \o sorted(rest)

(* the ratio of the two strings with their words sorted *)
token_sort_ratio(x, y) == ratio(join(sorted(split(x))), join(sorted(split(y))))

(* the similarity scorer: the higher of the two ratios of the normalized   *)
(* strings                                                                 *)
calculate_fuzzy_score(title1, title2) ==
    LET x == normalize_title_for_matching(title1)
        y == normalize_title_for_matching(title2)
        r == ratio(x, y)
        t == token_sort_ratio(x, y)
    IN IF r >= t THEN r ELSE t

-----------------------------------------------------------------------------
(* Source records and the provider *)

T_Ab == <<"A", "b">>

T_ab_bang == <<"a", "b", "!">>

T_Ab_c == <<"A", "b", " ", "c">>

T_Ab_c_d == <<"A", "b", " ", "c", ":", " ", "d">>

T_d == <<"d">>

A_k == <<"k">>

A_q == <<"q">>

A_z == <<"z">>

D_Kz == <<"K", " ", "z">>

(* the games the provider knows: thing id -> attributes *)
GameIds == {"1", "2", "3", "4"}

Catalogue(id) ==
    CASE id = "1" -> [bgg_id |-> "1", names |-> <<T_Ab, T_ab_bang>>,
                      year |-> 2000, designers |-> <<D_Kz>>]
      [] id = "2" -> [bgg_id |-> "2", names |-> <<T_Ab_c_d>>,
                      year |-> 0, designers |-> <<A_q>>]
      [] id = "3" -> [bgg_id |-> "3", names |-> <<T_Ab_c>>,
                      year |-> 2005, designers |-> <<D_Kz>>]
      [] OTHER -> [bgg_id |-> "4", names |-> <<T_ab_bang>>,
                   year |-> 2001, designers |-> <<A_z>>]

(* a game as parse_bgg_search_response returns it; year 0 stands for None *)
SearchHit(id) ==
    [bgg_id |-> id, names |-> Catalogue(id).names, year |-> Catalogue(id).year]

(* a game as parse_bgg_thing_response returns it *)
Details(id) ==
    [bgg_id |-> id, all_names |-> Catalogue(id).names,
     year |-> Catalogue(id).year, designers |-> Catalogue(id).designers]

(* the items a search answer can hold: a game with the names of the       *)
(* catalogue, or game 1 with its second name only (an answer lists the     *)
(* names the provider chose to give for that query)                        *)
SearchHits ==
    {SearchHit(id) : id \in GameIds}
    \cup {[bgg_id |-> "1", names |-> <<T_ab_bang>>, year |-> Catalogue("1").year]}

(* what one call of search_bgg_by_title can return: up to MaxResults games *)
(* without repetition, [] included (no hit, or the retries are used up)    *)
ResultLists ==
    LET lists == UNION {[1..n -> SearchHits] : n \in 0..MaxResults}
    IN {l \in lists : \A i, j \in 1..Len(l) : l[i].bgg_id = l[j].bgg_id => i = j}

(* what one call of bggapi.search_bgg_by_author can do: return thing ids,  *)
(* return [], or raise (RetryError, JSONDecodeError)                       *)
AuthorResults ==
    {[raised |-> FALSE, ids |-> l] :
        l \in {<<>>, <<"1">>, <<"2", "1">>, <<"4", "3">>}}
    \cup {[raised |-> TRUE, ids |-> <<>>]}

(* the year column of the input file *)
YearFields == {"", "n/a", "2000", "2002"}

(* int(finna_game['year']) inside try/except: 0 stands for None *)
ParseYear(field) ==
    CASE field = "2000" -> 2000
      [] field = "2002" -> 2002
      [] OTHER -> 0

(* the authors column: empty, JSON text, or a parsed mapping *)
AuthorFields ==
    {[form |-> "empty", names |-> <<>>],
     [form |-> "str", names |-> <<A_k>>],
     [form |-> "dict", names |-> <<A_k>>],
     [form |-> "dict", names |-> <<A_q, A_k>>],
     [form |-> "dict", names |-> <<A_q, A_q, A_k>>]}

(* the alternativeTitles column, as split(';') cuts it *)
AlternativeTitleFields ==
    {<<>>, <<T_ab_bang>>, <<<<" ">>, <<" ">> \o T_Ab_c>>, <<T_d>>}

SourceRecords ==
    [title : {<<>>, T_Ab, T_Ab_c},
     alternativeTitles : AlternativeTitleFields,
     year : YearFields,
     authors : AuthorFields]

(* str.strip() *)
RECURSIVE strip(_)
strip(str) ==
    IF str = <<>> THEN <<>>
    ELSE IF str[1] = " " THEN strip(Tail(str))
    ELSE IF str[Len(str)] = " " THEN strip(SubSeq(str, 1, Len(str) - 1))
    ELSE str

(* match_with_bgg.extract_authors_from_finna: json is not imported in the  *)
(* module, so json.loads on a string raises NameError, which the bare      *)
(* except turns into []; a mapping gives the cleaned names of its keys     *)
extract_authors_from_finna(authors_json) ==
    IF authors_json.form = "dict"
    THEN LET clean == [k \in 1..Len(authors_json.names) |->
                          strip(authors_json.names[k])]
             nonEmpty(n) == n # <<>>
         IN SelectSeq(clean, nonEmpty)
    ELSE <<>>

(* find_best_bgg_match, lines 269-278: the title set *)
TitleSet(game) ==
    LET main == IF game.title # <<>> THEN <<game.title>> ELSE <<>>
        alts == [k \in 1..Len(game.alternativeTitles) |->
                    strip(game.alternativeTitles[k])]
        nonEmpty(t) == t # <<>>
    IN main \o SelectSeq(alts, nonEmpty)

RECURSIVE ConcatAll(_)
ConcatAll(seqs) ==
    IF seqs = <<>> THEN <<>> ELSE seqs[1] \o ConcatAll(Tail(seqs))

Match(id, names, year, match_type) ==
    [bgg_id |-> id, names |-> names, year |-> year, match_type |-> match_type]

(* a substring test that does not count the words of the title *)
NameMatches_AnyWordCount(bgg_name, finna_title, match_type) ==
    LET bgg_normalized == normalize_title_for_matching(bgg_name)
        finna_normalized == normalize_title_for_matching(finna_title)
    IN IF match_type = "exact"
       THEN bgg_normalized = finna_normalized
       ELSE Contains(finna_normalized, bgg_normalized)

(* check_matches, lines 250-263: the test of one name against one title *)
NameMatches(bgg_name, finna_title, match_type) ==
    LET bgg_normalized == normalize_title_for_matching(bgg_name)
        finna_normalized == normalize_title_for_matching(finna_title)
    IN IF match_type = "exact"
       THEN bgg_normalized = finna_normalized
       ELSE /\ Len(split(finna_title)) > 1
            /\ Contains(finna_normalized, bgg_normalized)

(* match_with_bgg.check_matches: the break leaves the loop over the titles *)
(* only, so a game is recorded once for every name that matches a title    *)
check_matches(bgg_games, finna_titles, match_type) ==
    LET forName(game, n) ==
            IF \E t \in 1..Len(finna_titles) :
                  NameMatches(game.names[n], finna_titles[t], match_type)
            THEN <<Match(game.bgg_id, game.names, game.year, match_type)>>
            ELSE <<>>
        forGame(game) ==
            ConcatAll([n \in 1..Len(game.names) |-> forName(game, n)])
    IN ConcatAll([g \in 1..Len(bgg_games) |-> forGame(bgg_games[g])])

Call(strategy, fn, arg) == [strategy |-> strategy, fn |-> fn, arg |-> arg]

(* a strategy 1 that stops querying once a title gave a hit *)
Strategy1_StopsAtFirstHit(titles, resp) ==
    LET hits(t) == check_matches(resp[t], titles, "exact")
        asked == {t \in 1..Len(titles) : \A u \in 1..(t - 1) : hits(u) = <<>>}
    IN [matches |-> ConcatAll([t \in 1..Len(titles) |->
                       IF t \in asked THEN hits(t) ELSE <<>>]),
        calls |-> ConcatAll([t \in 1..Len(titles) |->
                       IF t \in asked
                       THEN <<Call(1, "search_bgg_by_title", titles[t])>>
                       ELSE <<>>]),
        raised |-> FALSE]

(* a strategy 1 that compares a candidate with the queried title only *)
Strategy1_QueriedTitleOnly(titles, resp) ==
    [matches |-> ConcatAll([t \in 1..Len(titles) |->
                    check_matches(resp[t], <<titles[t]>>, "exact")]),
     calls |-> [t \in 1..Len(titles) |->
                    Call(1, "search_bgg_by_title", titles[t])],
     raised |-> FALSE]

(* find_best_bgg_match, lines 294-303: strategy 1 with the answers resp    *)
(* of the title searches                                                   *)
Strategy1(finna_titles, resp) ==
    [matches |-> ConcatAll([t \in 1..Len(finna_titles) |->
                    check_matches(resp[t], finna_titles, "exact")]),
     calls |-> [t \in 1..Len(finna_titles) |->
                    Call(1, "search_bgg_by_title", finna_titles[t])],
     raised |-> FALSE]

(* find_best_bgg_match, lines 309-317: strategy 2, titles of one word are  *)
(* not searched                                                            *)
Strategy2(finna_titles, resp) ==
    LET searched(t) == Len(split(finna_titles[t])) > 1
    IN [matches |-> ConcatAll([t \in 1..Len(finna_titles) |->
                       IF searched(t)
                       THEN check_matches(resp[t], finna_titles, "substring")
                       ELSE <<>>]),
        calls |-> ConcatAll([t \in 1..Len(finna_titles) |->
                       IF searched(t)
                       THEN <<Call(2, "search_bgg_by_title", finna_titles[t])>>
                       ELSE <<>>]),
        raised |-> FALSE]

(* find_best_bgg_match, lines 334 and 366: the designer cross-check *)
DesignerHas(author, designers) ==
    \E d \in 1..Len(designers) : Contains(lower(author), lower(designers[d]))

(* check_fuzzy_matches: the games whose best score over their names and    *)
(* the titles of the record reaches the threshold                          *)
check_fuzzy_matches(bgg_games, finna_titles, threshold) ==
    LET reaches(game) ==
            \E n \in 1..Len(game.names), t \in 1..Len(finna_titles) :
                calculate_fuzzy_score(finna_titles[t], game.names[n]) >= threshold
    IN SelectSeq(bgg_games, reaches)

(* every author of the record is consulted *)
FirstAuthors_All(authors) == authors

(* find_best_bgg_match, lines 323: finna_authors[:2] *)
FirstAuthors(finna_authors) == SubSeq(finna_authors, 1, Min(2, Len(finna_authors)))

DetailCalls(strategy, ids) ==
    [i \in 1..Len(ids) |-> Call(strategy, "get_bgg_game_details", <<ids[i]>>)]

(* a strategy 3 that takes the works of an author as the provider lists    *)
(* them, without looking at their designers                                *)
RECURSIVE Strategy3_NoDesignerCheck(_, _, _, _, _)
Strategy3_NoDesignerCheck(k, authors, titles, aw, ok) ==
    IF k > Len(authors) THEN [matches |-> <<>>, calls |-> <<>>, raised |-> FALSE]
    ELSE LET search == <<Call(3, "search_bgg_by_author", authors[k])>>
             ids == aw[k].ids
             author_games ==
                 ConcatAll([i \in 1..Len(ids) |->
                    IF ids[i] \in ok
                    THEN <<Match(ids[i], Details(ids[i]).all_names,
                                 Details(ids[i]).year, "author_fuzzy_title")>>
                    ELSE <<>>])
             fuzzy_matches == check_fuzzy_matches(author_games, titles, 75)
             rest == Strategy3_NoDesignerCheck(k + 1, authors, titles, aw, ok)
         IN IF aw[k].raised
            THEN [matches |-> <<>>, calls |-> search, raised |-> TRUE]
            ELSE IF fuzzy_matches # <<>>
            THEN [matches |-> fuzzy_matches,
                  calls |-> search \o DetailCalls(3, ids), raised |-> FALSE]
            ELSE [matches |-> rest.matches,
                  calls |-> search \o DetailCalls(3, ids) \o rest.calls,
                  raised |-> rest.raised]

(* find_best_bgg_match, lines 323-349: strategy 3 from author k on; aw[k]  *)
(* is the answer of search_bgg_by_author for author k, ok the thing ids    *)
(* whose details can be fetched                                            *)
RECURSIVE Strategy3(_, _, _, _, _)
Strategy3(k, authors, finna_titles, aw, ok) ==
    IF k > Len(authors) THEN [matches |-> <<>>, calls |-> <<>>, raised |-> FALSE]
    ELSE LET author == authors[k]
             search == <<Call(3, "search_bgg_by_author", author)>>
             ids == aw[k].ids
             author_games ==
                 ConcatAll([i \in 1..Len(ids) |->
                    IF ids[i] \in ok
                       /\ DesignerHas(author, Details(ids[i]).designers)
                    THEN <<Match(ids[i], Details(ids[i]).all_names,
                                 Details(ids[i]).year, "author_fuzzy_title")>>
                    ELSE <<>>])
             fuzzy_matches == check_fuzzy_matches(author_games, finna_titles, 75)
             rest == Strategy3(k + 1, authors, finna_titles, aw, ok)
         IN IF aw[k].raised
            THEN [matches |-> <<>>, calls |-> search, raised |-> TRUE]
            ELSE IF fuzzy_matches # <<>>
            THEN [matches |-> fuzzy_matches,
                  calls |-> search \o DetailCalls(3, ids), raised |-> FALSE]
            ELSE [matches |-> rest.matches,
                  calls |-> search \o DetailCalls(3, ids) \o rest.calls,
                  raised |-> rest.raised]

(* a year match that does not look at the designers *)
FirstYearMatch_NoDesignerCheck(author, ids, year, ok) ==
    LET fits(i) ==
            /\ ids[i] \in ok
            /\ Details(ids[i]).year # 0
            /\ Details(ids[i]).year = year
        hits == {i \in 1..Len(ids) : fits(i)}
    IN IF hits = {} THEN 0 ELSE CHOOSE i \in hits : \A j \in hits : i <= j

(* find_best_bgg_match, lines 360-375: the first work of the author whose  *)
(* year and designers fit, 0 when there is none                            *)
FirstYearMatch(author, ids, finna_year, ok) ==
    LET fits(i) ==
            /\ ids[i] \in ok
            /\ Details(ids[i]).year # 0
            /\ Details(ids[i]).year = finna_year
            /\ DesignerHas(author, Details(ids[i]).designers)
        hits == {i \in 1..Len(ids) : fits(i)}
    IN IF hits = {} THEN 0 ELSE CHOOSE i \in hits : \A j \in hits : i <= j

(* find_best_bgg_match, lines 355-378: strategy 4 from author k on *)
RECURSIVE Strategy4(_, _, _, _, _)
Strategy4(k, authors, finna_year, aw, ok) ==
    IF k > Len(authors) THEN [matches |-> <<>>, calls |-> <<>>, raised |-> FALSE]
    ELSE LET author == authors[k]
             search == <<Call(4, "search_bgg_by_author", author)>>
             ids == aw[k].ids
             hit == FirstYearMatch(author, ids, finna_year, ok)
             rest == Strategy4(k + 1, authors, finna_year, aw, ok)
         IN IF aw[k].raised
            THEN [matches |-> <<>>, calls |-> search, raised |-> TRUE]
            ELSE IF hit # 0
            THEN [matches |-> <<Match(ids[hit], Details(ids[hit]).all_names,
                                      Details(ids[hit]).year, "author_year")>>,
                  calls |-> search \o DetailCalls(4, SubSeq(ids, 1, hit)),
                  raised |-> FALSE]
            ELSE [matches |-> rest.matches,
                  calls |-> search \o DetailCalls(4, ids) \o rest.calls,
                  raised |-> rest.raised]

(* a chain that runs strategy 2 whatever strategy 1 found *)
StrategyRuns_SubstringAlways(k, matches, finna_authors, finna_year) ==
    CASE k = 1 -> TRUE
      [] k = 2 -> TRUE
      [] k = 3 -> matches = <<>> /\ finna_authors # <<>>
      [] OTHER -> matches = <<>> /\ finna_authors # <<>> /\ finna_year # 0

(* find_best_bgg_match, lines 306, 320 and 352: the condition under which  *)
(* strategy k runs                                                         *)
StrategyRuns(k, matches, finna_authors, finna_year) ==
    CASE k = 1 -> TRUE
      [] k = 2 -> matches = <<>>
      [] k = 3 -> matches = <<>> /\ finna_authors # <<>>
      [] OTHER -> matches = <<>> /\ finna_authors # <<>> /\ finna_year # 0

(* find_best_bgg_match, lines 384-388: unique_matches[bgg_id] = match; a   *)
(* dict keeps the position of the first insertion and the value of the     *)
(* last one                                                                *)
RemoveDuplicates(matches) ==
    LET firstOf(i) == \A j \in 1..Len(matches) :
                         matches[j].bgg_id = matches[i].bgg_id => i <= j
        lastOf(i) == CHOOSE j \in 1..Len(matches) :
                        /\ matches[j].bgg_id = matches[i].bgg_id
                        /\ \A l \in 1..Len(matches) :
                              matches[l].bgg_id = matches[i].bgg_id => l <= j
    IN ConcatAll([i \in 1..Len(matches) |->
                    IF firstOf(i) THEN <<matches[lastOf(i)]>> ELSE <<>>])

(* find_best_bgg_match, line 396 *)
match_priority(match_type) ==
    CASE match_type = "exact" -> 0
      [] match_type = "substring" -> 1
      [] match_type = "author_fuzzy_title" -> 2
      [] match_type = "author_year" -> 3
      [] OTHER -> 99

(* find_best_bgg_match, line 399: list.sort is stable *)
SortByPriority(matches) ==
    LET ofPriority(p) ==
            LET has(m) == match_priority(m.match_type) = p
            IN SelectSeq(matches, has)
    IN ofPriority(0) \o ofPriority(1) \o ofPriority(2) \o ofPriority(3)
          \o ofPriority(99)

Abs(n) == IF n < 0 THEN -n ELSE n

(* a disambiguator that never looks at the year *)
SelectBest_IgnoresYear(matches, year) ==
    IF matches = <<>> THEN <<>>
    ELSE <<SortByPriority(RemoveDuplicates(matches))[1]>>

(* a disambiguator that gives up when the year fits no candidate *)
SelectBest_NoneWithoutYearMatch(matches, year) ==
    IF matches = <<>> THEN <<>>
    ELSE LET unique == RemoveDuplicates(matches)
             ordered == SortByPriority(unique)
             near(m) == m.year # 0 /\ Abs(m.year - year) <= 1
             year_matches == SelectSeq(ordered, near)
         IN IF Len(unique) = 1 THEN <<unique[1]>>
            ELSE IF year # 0 /\ year_matches # <<>>
            THEN <<year_matches[1]>>
            ELSE IF year # 0 THEN <<>>
            ELSE <<ordered[1]>>

(* find_best_bgg_match, lines 380-415: the disambiguator; <<>> stands for  *)
(* None, <<m>> for the match m                                             *)
SelectBest(matches, finna_year) ==
    IF matches = <<>> THEN <<>>
    ELSE LET unique == RemoveDuplicates(matches)
             ordered == SortByPriority(unique)
             near(m) == m.year # 0 /\ Abs(m.year - finna_year) <= 1
             year_matches == SelectSeq(ordered, near)
         IN IF Len(unique) = 1 THEN <<unique[1]>>
            ELSE IF finna_year # 0 /\ year_matches # <<>>
            THEN <<year_matches[1]>>
            ELSE <<ordered[1]>>

(* a row that takes the match kind from the detail fetch *)
ResultRow_NoneWithoutDetails(bgg_match, bgg_details) ==
    IF bgg_match # <<>> /\ bgg_details # <<>>
    THEN [bgg_id |-> bgg_details[1].bgg_id,
          match_type |-> bgg_match[1].match_type]
    ELSE IF bgg_match # <<>>
    THEN [bgg_id |-> bgg_match[1].bgg_id, match_type |-> "none"]
    ELSE [bgg_id |-> "", match_type |-> "none"]

(* match_with_bgg.main, lines 481-530: the bgg_id and match_type columns   *)
(* of the row; bgg_details is <<>> when the detail fetch gave None         *)
ResultRow(bgg_match, bgg_details) ==
    IF bgg_match # <<>>
    THEN IF bgg_details # <<>>
         THEN [bgg_id |-> bgg_details[1].bgg_id,
               match_type |-> bgg_match[1].match_type]
         ELSE [bgg_id |-> bgg_match[1].bgg_id,
               match_type |-> bgg_match[1].match_type]
    ELSE [bgg_id |-> "", match_type |-> "none"]

-----------------------------------------------------------------------------
(* Matching one record: find_best_bgg_match and the row main builds *)

finna_titles == TitleSet(finna_game)

finna_year == ParseYear(finna_game.year)

finna_authors == extract_authors_from_finna(finna_game.authors)

(* main, line 479: find_best_bgg_match is called for a record *)
MatchBegin ==
    /\ mpc \in {"idle", "row", "raised"}
    /\ finna_game' \in SourceRecords
    /\ mpc' = "s1"
    /\ all_matches' = <<>>
    /\ calls' = <<>>
    /\ yielded' = <<0, 0, 0, 0>>
    /\ best' = <<>>
    /\ result' = <<>>
    /\ UNCHANGED <<storeVars, fetchVars, pureVars>>

(* what a strategy leaves behind *)
Record(k, r, next) ==
    /\ all_matches' = all_matches \o r.matches
    /\ calls' = calls \o r.calls
    /\ yielded' = [yielded EXCEPT ![k] = Len(r.matches)]
    /\ mpc' = (IF r.raised THEN "raised" ELSE next)
    /\ UNCHANGED <<finna_game, best, result>>
    /\ UNCHANGED <<storeVars, fetchVars, pureVars>>

Skip(next) ==
    /\ mpc' = next
    /\ UNCHANGED <<finna_game, all_matches, calls, yielded, best, result>>
    /\ UNCHANGED <<storeVars, fetchVars, pureVars>>

(* find_best_bgg_match, lines 294-303 *)
RunStrategy1 ==
    /\ mpc = "s1"
    /\ \E resp \in [1..Len(finna_titles) -> ResultLists] :
          Record(1, Strategy1(finna_titles, resp), "s2")

(* find_best_bgg_match, lines 305-317 *)
RunStrategy2 ==
    /\ mpc = "s2"
    /\ IF StrategyRuns(2, all_matches, finna_authors, finna_year)
       THEN \E resp \in [1..Len(finna_titles) -> ResultLists] :
               Record(2, Strategy2(finna_titles, resp), "s3")
       ELSE Skip("s3")

(* find_best_bgg_match, lines 319-349 *)
RunStrategy3 ==
    /\ mpc = "s3"
    /\ IF StrategyRuns(3, all_matches, finna_authors, finna_year)
       THEN \E aw \in [1..Len(FirstAuthors(finna_authors)) -> AuthorResults],
               ok \in SUBSET GameIds :
               Record(3, Strategy3(1, FirstAuthors(finna_authors),
                                   finna_titles, aw, ok), "s4")
       ELSE Skip("s4")

(* find_best_bgg_match, lines 351-378 *)
RunStrategy4 ==
    /\ mpc = "s4"
    /\ IF StrategyRuns(4, all_matches, finna_authors, finna_year)
       THEN \E aw \in [1..Len(FirstAuthors(finna_authors)) -> AuthorResults],
               ok \in SUBSET GameIds :
               Record(4, Strategy4(1, FirstAuthors(finna_authors),
                                   finna_year, aw, ok), "select")
       ELSE Skip("select")

(* find_best_bgg_match, lines 380-415 *)
Select ==
    /\ mpc = "select"
    /\ best' = SelectBest(all_matches, finna_year)
    /\ mpc' = "matched"
    /\ UNCHANGED <<finna_game, all_matches, calls, yielded, result>>
    /\ UNCHANGED <<storeVars, fetchVars, pureVars>>

(* main, lines 481-530: the detail fetch for the match and the row *)
BuildRow ==
    /\ mpc = "matched"
    /\ \E bgg_details \in (IF best = <<>> THEN {<<>>}
                           ELSE {<<>>, <<Details(best[1].bgg_id)>>}) :
          result' = <<ResultRow(best, bgg_details)>>
    /\ mpc' = "row"
    /\ UNCHANGED <<finna_game, all_matches, calls, yielded, best>>
    /\ UNCHANGED <<storeVars, fetchVars, pureVars>>

InitMatch == StoreIdle /\ FetchIdle /\ MatchIdle /\ PureIdle

NextMatch ==
    \/ MatchBegin
    \/ RunStrategy1
    \/ RunStrategy2
    \/ RunStrategy3
    \/ RunStrategy4
    \/ Select
    \/ BuildRow

SpecMatch == InitMatch /\ [][NextMatch]_vars

KindOf(k) ==
    CASE k = 1 -> "exact"
      [] k = 2 -> "substring"
      [] k = 3 -> "author_fuzzy_title"
      [] OTHER -> "author_year"

(* C7: the provider calls of a record are made in the order of the         *)
(* strategies 1 to 4; a strategy makes a call only if every strategy       *)
(* before it yielded nothing; the result list holds the candidates of one  *)
(* strategy, all of its match kind.                                        *)
C7_StrictShortCircuit ==
    /\ \A i \in 1..Len(calls) :
          \A j \in 1..(calls[i].strategy - 1) : yielded[j] = 0
    /\ \A i, j \in 1..Len(calls) :
          i < j => calls[i].strategy <= calls[j].strategy
    /\ \A k \in 1..4 :
          yielded[k] > 0 =>
             /\ Len(all_matches) = yielded[k]
             /\ \A m \in 1..Len(all_matches) :
                   all_matches[m].match_type = KindOf(k)

(* strategy 2 found a candidate for a record whose authors and year would  *)
(* let strategies 3 and 4 run, and the chain has ended                     *)
C7_Witness ==
    /\ mpc = "matched"
    /\ yielded[1] = 0
    /\ yielded[2] > 0
    /\ finna_authors # <<>>
    /\ finna_year # 0
    /\ \E i \in 1..Len(calls) : calls[i].strategy = 2

(* C10: the row of a record has match_type none and an empty bgg_id        *)
(* exactly when none of the four strategies yielded a candidate, which is  *)
(* when find_best_bgg_match returned None; otherwise its bgg_id is not     *)
(* empty and its match_type is that of the returned candidate.             *)
C10_NoneRowIffNoCandidate ==
    mpc = "row" =>
        LET row == result[1]
            nothing == \A k \in 1..4 : yielded[k] = 0
        IN /\ (best = <<>>) <=> nothing
           /\ (row.match_type = "none") <=> nothing
           /\ (row.bgg_id = "") <=> nothing
           /\ best # <<>> => row.match_type = best[1].match_type

(* all four strategies ran for a record and none found a candidate *)
C10_Witness ==
    /\ mpc = "row"
    /\ best = <<>>
    /\ result[1].match_type = "none"
    /\ \A k \in 1..4 : \E i \in 1..Len(calls) : calls[i].strategy = k

-----------------------------------------------------------------------------
(* One strategy on its own: the title set, year and authors of a record    *)
(* are drawn, a strategy of find_best_bgg_match is run on them with the    *)
(* provider answers it gets, and lines 380-415 pick from what it found     *)

TitleSets == {TitleSet(r) : r \in SourceRecords}

Years == {ParseYear(y) : y \in YearFields}

AuthorLists == {extract_authors_from_finna(a) : a \in AuthorFields}

InitStrategy ==
    /\ StoreIdle /\ FetchIdle /\ MatchIdle /\ NormalizeIdle
    /\ \E t \in TitleSets, y \in Years, a \in AuthorLists :
          query = [k |-> 0, titles |-> t, year |-> y, authors |-> a,
                   resp |-> <<>>, aw |-> <<>>, ok |-> {}]
    /\ outcome = [matches |-> <<>>, calls |-> <<>>, raised |-> FALSE]
    /\ picked = <<>>
    /\ qpc = "drawn"

Applied(k, resp, aw, ok, out) ==
    /\ query' = [query EXCEPT !.k = k, !.resp = resp, !.aw = aw, !.ok = ok]
    /\ outcome' = out
    /\ qpc' = "applied"
    /\ UNCHANGED <<picked, normalizeVars>>
    /\ UNCHANGED <<storeVars, fetchVars, matchVars>>

(* find_best_bgg_match, lines 294-303 *)
ApplyStrategy1 ==
    /\ qpc = "drawn"
    /\ \E resp \in [1..Len(query.titles) -> ResultLists] :
          Applied(1, resp, <<>>, {}, Strategy1(query.titles, resp))

(* find_best_bgg_match, lines 305-317, all_matches being empty *)
ApplyStrategy2 ==
    /\ qpc = "drawn"
    /\ StrategyRuns(2, <<>>, query.authors, query.year)
    /\ \E resp \in [1..Len(query.titles) -> ResultLists] :
          Applied(2, resp, <<>>, {}, Strategy2(query.titles, resp))

(* find_best_bgg_match, lines 319-349, all_matches being empty *)
ApplyStrategy3 ==
    /\ qpc = "drawn"
    /\ StrategyRuns(3, <<>>, query.authors, query.year)
    /\ \E aw \in [1..Len(FirstAuthors(query.authors)) -> AuthorResults],
          ok \in SUBSET GameIds :
          Applied(3, <<>>, aw, ok,
                  Strategy3(1, FirstAuthors(query.authors), query.titles, aw, ok))

(* find_best_bgg_match, lines 351-378, all_matches being empty *)
ApplyStrategy4 ==
    /\ qpc = "drawn"
    /\ StrategyRuns(4, <<>>, query.authors, query.year)
    /\ \E aw \in [1..Len(FirstAuthors(query.authors)) -> AuthorResults],
          ok \in SUBSET GameIds :
          Applied(4, <<>>, aw, ok,
                  Strategy4(1, FirstAuthors(query.authors), query.year, aw, ok))

(* find_best_bgg_match, lines 380-415, on the list the strategy left *)
Disambiguate ==
    /\ qpc = "applied"
    /\ ~outcome.raised
    /\ picked' = SelectBest(outcome.matches, query.year)
    /\ qpc' = "selected"
    /\ UNCHANGED <<query, outcome, normalizeVars>>
    /\ UNCHANGED <<storeVars, fetchVars, matchVars>>

NextStrategy ==
    \/ ApplyStrategy1
    \/ ApplyStrategy2
    \/ ApplyStrategy3
    \/ ApplyStrategy4
    \/ Disambiguate

SpecStrategy == InitStrategy /\ [][NextStrategy]_vars

StrategyDone(k) == qpc \in {"applied", "selected"} /\ query.k = k

MultiWord(t) == Len(split(t)) > 1

(* the title searches of strategy 2 and what they returned: the pairs of a *)
(* returned candidate and one of its names that contains a title of        *)
(* several words, as <<title index, position in the answer, name index>>   *)
SubstringPairs ==
    {p \in (1..Len(query.titles)) \X (1..MaxResults + 1) \X (1..2) :
        /\ MultiWord(query.titles[p[1]])
        /\ p[2] <= Len(query.resp[p[1]])
        /\ p[3] <= Len(query.resp[p[1]][p[2]].names)
        /\ Contains(normalize_title_for_matching(query.titles[p[1]]),
                    normalize_title_for_matching(
                        query.resp[p[1]][p[2]].names[p[3]]))}

PairScore(p) ==
    calculate_fuzzy_score(query.titles[p[1]], query.resp[p[1]][p[2]].names[p[3]])

(* C12: strategy 2 returns at most one candidate, tagged substring: the    *)
(* candidate of the pair with the highest similarity score among the pairs *)
(* of a candidate name that contains a title of several words; it returns  *)
(* the empty list when there is no such pair.                              *)
C12_SubstringKeepsSingleBest ==
    StrategyDone(2) =>
        /\ Len(outcome.matches) <= 1
        /\ (outcome.matches = <<>>) <=> (SubstringPairs = {})
        /\ outcome.matches # <<>> =>
              /\ outcome.matches[1].match_type = "substring"
              /\ \E p \in SubstringPairs :
                    /\ query.resp[p[1]][p[2]].bgg_id = outcome.matches[1].bgg_id
                    /\ \A q \in SubstringPairs : PairScore(q) <= PairScore(p)

(* C13: a title of one word never produces a substring match: every        *)
(* candidate strategy 2 returns has a name that contains a title of        *)
(* several words, and a record whose titles are all single words gets the  *)
(* empty list whatever the title search would return.                      *)
C13_SingleWordTitleNeverMatches ==
    StrategyDone(2) =>
        /\ \A m \in 1..Len(outcome.matches) :
              \E t \in 1..Len(query.titles), n \in 1..Len(outcome.matches[m].names) :
                 /\ MultiWord(query.titles[t])
                 /\ Contains(normalize_title_for_matching(query.titles[t]),
                             normalize_title_for_matching(outcome.matches[m].names[n]))
        /\ (\A t \in 1..Len(query.titles) : ~MultiWord(query.titles[t]))
              => outcome.matches = <<>>

(* the titles are single words, the provider has a candidate whose name    *)
(* contains one of them, and strategy 2 returned nothing                   *)
C13_Witness ==
    /\ StrategyDone(2)
    /\ query.titles # <<>>
    /\ \A t \in 1..Len(query.titles) : ~MultiWord(query.titles[t])
    /\ \E t \in 1..Len(query.titles) :
          \E h \in 1..Len(query.resp[t]) :
             \E n \in 1..Len(query.resp[t][h].names) :
                Contains(normalize_title_for_matching(query.titles[t]),
                         normalize_title_for_matching(query.resp[t][h].names[n]))
    /\ outcome.matches = <<>>

(* a returned candidate has a name that normalizes like title u *)
NamedLike(hit, u) ==
    \E n \in 1..Len(hit.names) :
       normalize_title_for_matching(hit.names[n])
          = normalize_title_for_matching(query.titles[u])

Hits(t) == {query.resp[t][h] : h \in 1..Len(query.resp[t])}

MatchedIds == {outcome.matches[m].bgg_id : m \in 1..Len(outcome.matches)}

EveryTitleQueried ==
    outcome.calls = [t \in 1..Len(query.titles) |->
                        Call(1, "search_bgg_by_title", query.titles[t])]

(* C14 as stated: strategy 1 records as exact precisely the candidates     *)
(* returned by the search on a title t that have a name normalizing like   *)
(* that queried title t; every title is queried and the hits accumulate.   *)
C14_ExactOnQueriedTitle ==
    StrategyDone(1) =>
        /\ MatchedIds = {hit.bgg_id : hit \in
                           UNION {{x \in Hits(t) : NamedLike(x, t)} :
                                     t \in 1..Len(query.titles)}}
        /\ EveryTitleQueried

(* C14 amended: strategy 1 records as exact precisely the candidates       *)
(* returned by the search on a title that have a name normalizing like     *)
(* some title of the title set, queried or not; every title is queried, in *)
(* order, and the hits of all queries accumulate.                          *)
C14_ExactOnAnyTitleAccumulated ==
    StrategyDone(1) =>
        /\ MatchedIds = {hit.bgg_id : hit \in
                           UNION {{x \in Hits(t) :
                                      \E u \in 1..Len(query.titles) : NamedLike(x, u)} :
                                     t \in 1..Len(query.titles)}}
        /\ \A m \in 1..Len(outcome.matches) :
              outcome.matches[m].match_type = "exact"
        /\ EveryTitleQueried

(* two titles were queried and each query alone brought one of two         *)
(* recorded candidates                                                     *)
C14_Witness ==
    /\ StrategyDone(1)
    /\ Len(query.titles) = 2
    /\ \E x \in Hits(1) \ Hits(2), y \in Hits(2) \ Hits(1) :
          /\ x.bgg_id # y.bgg_id
          /\ {x.bgg_id, y.bgg_id} \subseteq MatchedIds

(* C15: a candidate returned by the search on any title is an exact match  *)
(* when one of its names normalizes like any title of the record, also a   *)
(* title that was not the one queried; find_best_bgg_match then returns a  *)
(* candidate tagged exact, and that candidate when it is the only one.     *)
C15_ExactAcrossTitles ==
    StrategyDone(1) =>
        /\ \A t, u \in 1..Len(query.titles) :
              \A hit \in Hits(t) :
                 NamedLike(hit, u) =>
                    \E m \in 1..Len(outcome.matches) :
                       /\ outcome.matches[m].bgg_id = hit.bgg_id
                       /\ outcome.matches[m].match_type = "exact"
        /\ (qpc = "selected" /\ outcome.matches # <<>>) =>
              /\ picked # <<>>
              /\ picked[1].match_type = "exact"
              /\ picked[1].bgg_id \in MatchedIds
              /\ Cardinality(MatchedIds) = 1 => MatchedIds = {picked[1].bgg_id}

(* the search on the second title alone returned a candidate, named like   *)
(* the first title and not like the second, and it was returned as exact   *)
C15_Witness ==
    /\ StrategyDone(1)
    /\ qpc = "selected"
    /\ Len(query.titles) = 2
    /\ query.resp[1] = <<>>
    /\ Len(query.resp[2]) = 1
    /\ NamedLike(query.resp[2][1], 1)
    /\ ~NamedLike(query.resp[2][1], 2)
    /\ picked # <<>>
    /\ picked[1].bgg_id = query.resp[2][1].bgg_id
    /\ picked[1].match_type = "exact"

(* the authors a strategy consults *)
Consulted == FirstAuthors(query.authors)

(* the designer cross-check of work i of the answer for author a *)
DesignedBy(a, i) ==
    \E d \in 1..Len(Catalogue(query.aw[a].ids[i]).designers) :
       Contains(lower(Consulted[a]),
                lower(Catalogue(query.aw[a].ids[i]).designers[d]))

(* work i of the answer for author a qualifies for strategy 4 *)
Qualifies(a, i) ==
    /\ query.aw[a].ids[i] \in query.ok
    /\ Catalogue(query.aw[a].ids[i]).year = query.year
    /\ DesignedBy(a, i)

Works(a) == 1..Len(query.aw[a].ids)

(* C17: strategy 4 runs only for a record with an author and a known year  *)
(* (and an empty result list); it returns at most one candidate, tagged    *)
(* author_year: the first work, in the order searchByAuthor returned, of   *)
(* the first consulted author that has one, whose details exist, whose     *)
(* year equals the record's year and whose designers contain the author;   *)
(* it returns the empty list when no work of the consulted authors         *)
(* qualifies.                                                              *)
C17_AuthorYearFirstQualifying ==
    (StrategyDone(4) /\ ~outcome.raised) =>
        /\ query.authors # <<>>
        /\ query.year # 0
        /\ Len(outcome.matches) <= 1
        /\ (outcome.matches = <<>>) <=>
              (\A a \in 1..Len(Consulted) : \A i \in Works(a) : ~Qualifies(a, i))
        /\ outcome.matches # <<>> =>
              /\ outcome.matches[1].match_type = "author_year"
              /\ \E a \in 1..Len(Consulted) : \E i \in Works(a) :
                    /\ Qualifies(a, i)
                    /\ outcome.matches[1].bgg_id = query.aw[a].ids[i]
                    /\ \A j \in 1..(i - 1) : ~Qualifies(a, j)
                    /\ \A b \in 1..(a - 1) : \A j \in Works(b) : ~Qualifies(b, j)

(* the work returned is not the first one the author search listed *)
C17_Witness ==
    /\ StrategyDone(4)
    /\ ~outcome.raised
    /\ outcome.matches # <<>>
    /\ \E a \in 1..Len(Consulted) :
          /\ Len(query.aw[a].ids) = 2
          /\ outcome.matches[1].bgg_id = query.aw[a].ids[2]
          /\ outcome.matches[1].bgg_id # query.aw[a].ids[1]

(* C18: every candidate strategy 3 returns is tagged author_fuzzy_title,   *)
(* is a work listed for a consulted author whose name one of its designers *)
(* contains, and scores at least 75 against a title of the record.         *)
C18_AuthorFuzzyDesignerAndThreshold ==
    (StrategyDone(3) /\ ~outcome.raised) =>
        \A m \in 1..Len(outcome.matches) :
           /\ outcome.matches[m].match_type = "author_fuzzy_title"
           /\ \E a \in 1..Len(Consulted) : \E i \in Works(a) :
                 /\ query.aw[a].ids[i] = outcome.matches[m].bgg_id
                 /\ DesignedBy(a, i)
           /\ \E t \in 1..Len(query.titles) :
                 \E n \in 1..Len(outcome.matches[m].names) :
                    calculate_fuzzy_score(query.titles[t],
                                          outcome.matches[m].names[n]) >= 75

(* strategy 3 returned a work, and left out a listed work with fetched     *)
(* details and a title score of 75 or more whose designers lack the author *)
C18_Witness ==
    /\ StrategyDone(3)
    /\ ~outcome.raised
    /\ outcome.matches # <<>>
    /\ \E a \in 1..Len(Consulted) : \E i \in Works(a) :
          /\ query.aw[a].ids[i] \in query.ok
          /\ ~DesignedBy(a, i)
          /\ \E t \in 1..Len(query.titles) :
                \E n \in 1..Len(Catalogue(query.aw[a].ids[i]).names) :
                   calculate_fuzzy_score(query.titles[t],
                       Catalogue(query.aw[a].ids[i]).names[n]) >= 75
          /\ query.aw[a].ids[i] \notin MatchedIds

-----------------------------------------------------------------------------
(* The normalizer on its own: a title is drawn, normalized, and the result *)
(* normalized again                                                        *)

Titles == UNION {[1..n -> Chars] : n \in 0..MaxTitleLen}

(* the argument of normalize_title_for_matching: None or a string *)
TitleArguments == {<<>>} \cup {<<t>> : t \in Titles}

(* normalize_title_for_matching, lines 234-235: None is as false as "" *)
NormalizeArgument(x) ==
    IF x = <<>> THEN <<>> ELSE normalize_title_for_matching(x[1])

InitNormalize ==
    /\ StoreIdle /\ FetchIdle /\ MatchIdle /\ StrategyIdle
    /\ given_title \in TitleArguments
    /\ normalized = <<>>
    /\ renormalized = <<>>
    /\ npc = "given"

NormalizeOnce ==
    /\ npc = "given"
    /\ normalized' = NormalizeArgument(given_title)
    /\ npc' = "once"
    /\ UNCHANGED <<given_title, renormalized, strategyVars>>
    /\ UNCHANGED <<storeVars, fetchVars, matchVars>>

NormalizeAgain ==
    /\ npc = "once"
    /\ renormalized' = NormalizeArgument(<<normalized>>)
    /\ npc' = "twice"
    /\ UNCHANGED <<given_title, normalized, strategyVars>>
    /\ UNCHANGED <<storeVars, fetchVars, matchVars>>

NextNormalize ==
    \/ NormalizeOnce
    \/ NormalizeAgain

SpecNormalize == InitNormalize /\ [][NextNormalize]_vars

(* C20: normalizing a normalized title changes nothing, for every title,   *)
(* and the empty string and None both normalize to the empty string.       *)
C20_NormalizeIdempotentAndTotal ==
    /\ npc = "twice" => renormalized = normalized
    /\ (npc \in {"once", "twice"} /\ given_title \in {<<>>, << <<>> >>})
          => normalized = <<>>
    /\ npc \in {"once", "twice"} => normalized \in Titles

(* a title with a capital, punctuation or surplus blanks, which the first  *)
(* application changed, has been normalized twice                          *)
C20_Witness ==
    /\ npc = "twice"
    /\ given_title # <<>>
    /\ normalized # <<>>
    /\ normalized # given_title[1]
    /\ renormalized = normalized

(* C11: with more than one candidate left after de-duplication the match   *)
(* returned is the first, in the order of match-kind priority and then of  *)
(* finding, of the candidates whose year is within 1 of the record's year; *)
(* it is the first candidate in that order when the record has no year or  *)
(* no candidate is that near.                                              *)
C11_YearThenPriorityOrder ==
    mpc \in {"matched", "row"} =>
        LET U == RemoveDuplicates(all_matches)
            Before(i, j) ==
                \/ match_priority(U[i].match_type) < match_priority(U[j].match_type)
                \/ /\ match_priority(U[i].match_type) = match_priority(U[j].match_type)
                   /\ i < j
            Near(i) == /\ finna_year # 0
                       /\ U[i].year # 0
                       /\ U[i].year - finna_year \in {-1, 0, 1}
            First(i, S) == i \in S /\ \A j \in S \ {i} : Before(i, j)
            All == 1..Len(U)
            NearOnes == {i \in All : Near(i)}
        IN Len(U) > 1 =>
              \E i \in All :
                 /\ best = <<U[i]>>
                 /\ IF NearOnes # {} THEN First(i, NearOnes) ELSE First(i, All)

(* two candidates are left, the record has a year, and the year makes the  *)
(* second candidate win                                                    *)
C11_Witness ==
    /\ mpc = "matched"
    /\ finna_year # 0
    /\ Len(RemoveDuplicates(all_matches)) > 1
    /\ best # <<>>
    /\ best[1].bgg_id # RemoveDuplicates(all_matches)[1].bgg_id
    /\ best[1].year - finna_year \in {-1, 0, 1}

(* C16: the disambiguator returns None exactly when the result list of the *)
(* strategies is empty; otherwise it returns one candidate, and that       *)
(* candidate is an entry of the list.                                      *)
C16_OneListedCandidateOrNone ==
    mpc \in {"matched", "row"} =>
        /\ (best = <<>>) <=> (all_matches = <<>>)
        /\ all_matches # <<>> =>
              /\ Len(best) = 1
              /\ \E i \in 1..Len(all_matches) :
                    /\ all_matches[i] = best[1]
                    /\ all_matches[i].bgg_id = best[1].bgg_id
                    /\ all_matches[i].match_type = best[1].match_type

(* a list of several candidates with a year that fits none of them, and    *)
(* one of them returned                                                    *)
C16_Witness ==
    /\ mpc = "matched"
    /\ finna_year # 0
    /\ Len(RemoveDuplicates(all_matches)) > 1
    /\ \A i \in 1..Len(all_matches) :
          all_matches[i].year - finna_year \notin {-1, 0, 1}
    /\ best # <<>>

(* C19: search_bgg_by_author asks for the works of a designer only after   *)
(* the name search gave a designer id; when the name search resolves no    *)
(* designer it returns the empty list with no further request.             *)
C19_WorksRequestOnlyAfterDesignerId ==
    fop = "bggapi.search_bgg_by_author" =>
        LET NameSearches == {i \in 1..Len(flog) : flog[i].call = "_search_designer_id"}
            WorksRequests == {i \in 1..Len(flog) :
                         flog[i].call = "_get_games_by_designer_id"}
        IN /\ \A i \in WorksRequests :
                 \E j \in NameSearches :
                    /\ j < i
                    /\ flog[j].outcome = "ok"
                    /\ \A k \in NameSearches : k <= j
           /\ \A j \in NameSearches :
                 flog[j].outcome \in {"ok_empty", "malformed"} =>
                    /\ Len(flog) = j
                    /\ WorksRequests = {}
                    /\ fstate = "returned"
                    /\ fvalue = "empty"

(* the name search found no designer and the operation returned [] after   *)
(* that one request                                                        *)
C19_Witness ==
    /\ fop = "bggapi.search_bgg_by_author"
    /\ fstate = "returned"
    /\ fvalue = "empty"
    /\ Len(flog) = 1
    /\ flog[1].call = "_search_designer_id"
    /\ flog[1].outcome = "ok_empty"

-----------------------------------------------------------------------------
(* The retry policy of the fetchers *)

(* the requests of the retried function c, as positions of the log *)
AttemptsOf(c) == {i \in 1..Len(flog) : flog[i].call = c}

(* request i is followed by another attempt of the same function *)
Retried(i) == i < Len(flog) /\ flog[i + 1].call = flog[i].call

(* C21: a retried function makes at most the configured number of          *)
(* attempts (3) and then ends; another attempt follows only a transport    *)
(* failure or a 202 result, and the first response that is neither ends    *)
(* the function.                                                           *)
C21_BoundedAttempts ==
    fop # "none" =>
        /\ \A i \in 1..Len(flog) :
              /\ Cardinality(AttemptsOf(flog[i].call)) <= MAX_RETRIES
              /\ Cardinality(AttemptsOf(flog[i].call)) <= max_retries
              /\ Retried(i) => flog[i].outcome \in Transient
        /\ fstate = "running" => attempt < MAX_RETRIES /\ attempt < max_retries
        /\ fstate = "running" => attempt = Cardinality(AttemptsOf(fcall))
        /\ (flog # <<>> /\ flog[Len(flog)].call = fcall
               /\ flog[Len(flog)].outcome \notin Transient) => FetchEnded
        /\ (flog # <<>> /\ Cardinality(AttemptsOf(fcall)) = MAX_RETRIES)
              => FetchEnded

(* two failed attempts, then a response that ended the call at the third   *)
C21_Witness ==
    /\ fstate = "returned"
    /\ Len(flog) = MAX_RETRIES
    /\ flog[1].outcome \in Transient
    /\ flog[2].outcome \in Transient
    /\ flog[3].outcome = "ok"
    /\ flog[1].call = flog[3].call

(* C26: the wait before a retry is the 202 delay exactly when the attempt  *)
(* just made returned 202; after a transport failure it is the base delay, *)
(* whatever the number of the attempt.                                     *)
C26_DelayFollowsOutcome ==
    \A i \in 1..Len(flog) :
       Retried(i) =>
          /\ (flog[i].wait = BGG_202_DELAY) <=> (flog[i].outcome = "processing_202")
          /\ flog[i].outcome \in {"timeout", "http_error"} => flog[i].wait = BASE_DELAY

-----------------------------------------------------------------------------
(* The authors strategies 3 and 4 consult *)

AuthorSearches ==
    LET isSearch(c) == c.fn = "search_bgg_by_author"
    IN SelectSeq(outcome.calls, isSearch)

(* the first author has a work that the strategy run accepts *)
FirstAuthorYields ==
    /\ query.aw # <<>>
    /\ ~query.aw[1].raised
    /\ \E i \in Works(1) :
          IF query.k = 4 THEN Qualifies(1, i)
          ELSE /\ query.aw[1].ids[i] \in query.ok
               /\ DesignedBy(1, i)
               /\ \E t \in 1..Len(query.titles) :
                     \E n \in 1..Len(Catalogue(query.aw[1].ids[i]).names) :
                        calculate_fuzzy_score(query.titles[t],
                            Catalogue(query.aw[1].ids[i]).names[n]) >= 75

(* C22: strategies 3 and 4 search by author for at most the first two      *)
(* authors of the record, in their order; the second author is not         *)
(* searched once the first has yielded a candidate, and no author after    *)
(* the second is ever searched.                                            *)
C22_AtMostTwoAuthorsInOrder ==
    (StrategyDone(3) \/ StrategyDone(4)) =>
        /\ Len(AuthorSearches) <= 2
        /\ Len(AuthorSearches) <= Len(query.authors)
        /\ \A j \in 1..Len(AuthorSearches) :
              AuthorSearches[j].arg = query.authors[j]
        /\ FirstAuthorYields => Len(AuthorSearches) = 1

(* a record with three authors whose first author yielded the candidate *)
C22_Witness ==
    /\ StrategyDone(3) \/ StrategyDone(4)
    /\ Len(query.authors) = 3
    /\ outcome.matches # <<>>
    /\ FirstAuthorYields
    /\ Len(AuthorSearches) = 1

-----------------------------------------------------------------------------
(* Duplicates in the result list *)

(* the entries of a list that are the first with their bgg_id *)
FirstOccurrences(l) ==
    ConcatAll([i \in 1..Len(l) |->
                  IF \A j \in 1..(i - 1) : l[j].bgg_id # l[i].bgg_id
                  THEN <<l[i]>> ELSE <<>>])

(* C23: de-duplication keeps one candidate per bgg_id, the first           *)
(* occurrence in the result list with its position and its attributes,     *)
(* and leaves the order of the kept candidates as it was.                  *)
C23_DedupKeepsFirstOccurrence ==
    mpc \in {"select", "matched", "row"} =>
        RemoveDuplicates(all_matches) = FirstOccurrences(all_matches)

(* how often strategy 1 recorded the candidate id *)
TimesRecorded(id) ==
    Cardinality({m \in 1..Len(outcome.matches) : outcome.matches[m].bgg_id = id})

(* the title queries whose answer holds the candidate id *)
QueriesReturning(id) ==
    {t \in 1..Len(query.titles) : \E hit \in Hits(t) : hit.bgg_id = id}

(* C25: strategy 1 records a candidate at most once for each title query   *)
(* that returned it, also when several of its names match.                 *)
C25_OncePerQuery ==
    StrategyDone(1) =>
        \A id \in GameIds : TimesRecorded(id) <= Cardinality(QueriesReturning(id))

-----------------------------------------------------------------------------
(* The header of the store *)

(* the terminated lines of the store *)
StoreLines == SplitLines(CompletePart(store.content))

(* the places of the header lines among the terminated lines of the store *)
HeaderLines == {k \in 1..Len(StoreLines) : IsHeaderLine(StoreLines[k])}

(* what the run has written behind what the store held at its start *)
RunOutput ==
    SubSeq(store.content \o buf, Len(Base) + 1, Len(store.content \o buf))

(* C24: a header is written before the first row of a run exactly when     *)
(* the store is empty or missing at that time, so that after any sequence  *)
(* of runs and crash-resumes of either controller a store that holds a     *)
(* terminated line holds exactly one header line, its first line, also     *)
(* when a run started on a store that held only the header.                *)
C24_OneHeaderFirstLine ==
    /\ Len(StoreLines) >= 1 => HeaderLines = {1}
    /\ (pc = "loop" /\ written # <<>>) =>
          ((\E h \in {KeyedHeader, PositionalHeader} : IsPrefix(h, RunOutput))
              <=> (~cut.exists \/ Base = <<>>))

-----------------------------------------------------------------------------
(* The end of a run *)

(* the records the run passed over have a row in the store it started on;  *)
(* the keyed controller also passes over a record without an id            *)
SkippedHaveRows ==
    IF ctl = "keyed"
    THEN \A k \in 1..Len(input) :
            (input[k] \notin Range(unprocessed0) /\ Strip(input[k]) # "")
                => Strip(input[k]) \in get_processed_ids(cut, "finna_id")
    ELSE skip_count <= Len(RowIdsIn(Base))

(* a step of the running controller can be taken *)
RunCanStep ==
    ENABLED (KeyedWriteRow \/ KeyedFlushRow \/ KeyedFinish
             \/ PositionalWriteRow \/ PositionalFinish)

(* C27: a run that does not crash ends: while it loops it can take a step  *)
(* and it has handled no more records than it set out to; at its end it    *)
(* has written the row of every record it did not pass over, once and in   *)
(* input order, every record it passed over has a row in the store, and    *)
(* the count of already processed records it reported (processed_count in  *)
(* fetch_finna_availability.main, skip_count in match_with_bgg.main) plus  *)
(* the number of rows it wrote is the number of input records.             *)
C27_RunVisitsEveryRecordOnce ==
    /\ pc = "loop" =>
          /\ RunCanStep
          /\ IsPrefix(written, unprocessed0)
    /\ pc = "done" =>
          /\ written = unprocessed0
          /\ newCount = Len(written)
          /\ SkippedHaveRows
          /\ (IF ctl = "keyed" THEN processed_count ELSE skip_count)
                + newCount = Len(input)

-----------------------------------------------------------------------------
(* The keyed controller resuming on a store that may be damaged *)

(* the stores a run may find: no file, an empty one, and what keyed runs   *)
(* leave (the header, rows, and a row cut short), whole or with one of its *)
(* bytes damaged                                                           *)
ResumeStores ==
    LET LeftContents ==
            {KeyedHeader \o rows \o tail :
                rows \in {<<>>, Row("a", "ok"),
                          Row("a", "ok") \o Row("b", "empty")},
                tail \in {<<>>, <<"b">>}}
        Damaged(content) ==
            {[content EXCEPT ![k] = BadByte] : k \in 1..Len(content)}
    IN {NoFile, File(<<>>)}
       \cup {File(c) : c \in LeftContents}
       \cup {File(d) : d \in UNION {Damaged(c) : c \in LeftContents}}

InitResume ==
    /\ ctl = "keyed"
    /\ input \in ShortInputs
    /\ store \in ResumeStores
    /\ openable \in BOOLEAN
    /\ buf = <<>>
    /\ pc = "start"
    /\ todo = <<>>
    /\ idx = 0
    /\ skip_count = 0
    /\ file_exists = FALSE
    /\ writer = FALSE
    /\ inflight = <<>>
    /\ cut = store
    /\ written = <<>>
    /\ unprocessed0 = <<>>
    /\ newCount = 0
    /\ processed_count = 0
    /\ prevEnd = "none"
    /\ prevStore = store
    /\ FetchIdle /\ MatchIdle /\ PureIdle

NextResume ==
    \/ KeyedNoGames
    \/ KeyedStartRun
    \/ KeyedStartRaises
    \/ KeyedWriteRow
    \/ KeyedFlushRow
    \/ KeyedFinish
    \/ Crash

SpecResume == InitResume /\ [][NextResume]_vars

(* the store the run started on cannot be opened, or what the truncation   *)
(* step leaves of it does not decode                                       *)
StoreUnreadable ==
    \/ ~openable /\ prevStore.exists
    \/ ~Decodable(truncate_incomplete_output(prevStore).content)

(* C28: when a keyed run starts on a store that cannot be read or parsed,  *)
(* the set of processed ids is empty, so that every input record with a    *)
(* non-empty id is in the unprocessed list of the run, and the run goes on *)
(* to handle them: it does not end with an exception.                      *)
C28_UnreadableStoreTreatedAsEmpty ==
    (pc # "start" /\ input # <<>> /\ StoreUnreadable) =>
        /\ pc # "raised"
        /\ unprocessed0 = FilterUnprocessed(input, {})
        /\ processed_count = Len(input) - Len(FilterUnprocessed(input, {}))

-----------------------------------------------------------------------------
(* Resumption by position *)

(* C29: in match_with_bgg.main resumption is positional: over complete and *)
(* crash-resumed runs on one input list the k-th data row of the store is  *)
(* the row of the k-th input record, and the number of leading records a   *)
(* run skips is the number of complete data rows of the store it started   *)
(* on, so that no record is skipped without a row and none gets two rows.  *)
C29_PositionalResumption ==
    (ctl = "positional" /\ pc # "start") =>
        /\ IsPrefix(RowIdsIn(CompletePart(store.content)), input)
        /\ skip_count = Len(RowIdsIn(Base))
        /\ written = SubSeq(input, Len(RowIdsIn(Base)) + 1,
                            Len(RowIdsIn(Base)) + Len(written))

-----------------------------------------------------------------------------
(* fetch_bgg_games.main without --reset, on the store of BGG games *)

MaxRelations == 2   \* longest relations file

(* fetch_bgg_games.main: fieldnames, of which the id, one field of the     *)
(* details and the timestamp are kept                                      *)
GamesHeader == <<"bgg_id", "primary_name", "last_updated", NL>>

GameRow(bgg_id, primary_name, last_updated) ==
    <<bgg_id, primary_name, last_updated, NL>>

(* utils.get_current_timestamp, and a timestamp that lies more than        *)
(* max_age days before it                                                  *)
NowStamp == "new"

OldStamp == "old"

BggIds == <<"1", "2", "3">>

(* csv.DictReader: the value of a row under a field name, "" when the      *)
(* header has no such field                                                *)
Field(header, line, name) ==
    LET cols == {c \in 1..Len(header) : header[c] = name}
    IN IF cols = {} THEN ""
       ELSE LET col == CHOOSE c \in cols : \A e \in cols : e <= c
            IN IF col <= Len(line) THEN line[col] ELSE ""

(* csv.DictReader over a file: its header and its rows *)
DictRows(f) ==
    LET lines == SplitLines(f.content)
    IN IF ~f.exists \/ Len(lines) = 0 THEN [header |-> <<>>, rows |-> <<>>]
       ELSE [header |-> lines[1], rows |-> SubSeq(lines, 2, Len(lines))]

(* utils.get_unique_bgg_ids: sorted(list(bgg_ids)) *)
get_unique_bgg_ids(relations) ==
    LET bgg_ids == {Strip(relations[k]) : k \in 1..Len(relations)} \ {""}
        listed(x) == x \in bgg_ids
    IN SelectSeq(BggIds, listed)

(* utils.get_stale_bgg_ids: the ids of the rows without timestamp, with a  *)
(* timestamp before the cutoff or with one that does not parse             *)
get_stale_bgg_ids(f) ==
    IF ~f.exists THEN {}
    ELSE IF ~Decodable(f.content) THEN {}
    ELSE LET r == DictRows(f)
             id(k) == Strip(Field(r.header, r.rows[k], "bgg_id"))
             stamp(k) == Strip(Field(r.header, r.rows[k], "last_updated"))
         IN {id(k) : k \in {j \in 1..Len(r.rows) :
                               id(j) # "" /\ stamp(j) # NowStamp}}

(* a reload that keeps every row of the file *)
existing_records_KeepsAll(f, unprocessed_bgg_ids) ==
    LET r == DictRows(f)
    IN [k \in 1..Len(r.rows) |->
          GameRow(Field(r.header, r.rows[k], "bgg_id"),
                  Field(r.header, r.rows[k], "primary_name"),
                  Field(r.header, r.rows[k], "last_updated"))]

(* fetch_bgg_games.main, lines 73-85 and 98-101: the rows that need no     *)
(* update, as a dict keeps them (place of the first row of an id, value of *)
(* the last), each completed to the field names                            *)
existing_records(f, unprocessed_bgg_ids) ==
    IF ~f.exists THEN <<>>
    ELSE IF ~Decodable(f.content) THEN <<>>
    ELSE LET r == DictRows(f)
             id(k) == Strip(Field(r.header, r.rows[k], "bgg_id"))
             kept == {k \in 1..Len(r.rows) :
                        id(k) # "" /\ id(k) \notin unprocessed_bgg_ids}
             firstOf(k) == \A j \in kept : id(j) = id(k) => k <= j
             lastOf(k) == CHOOSE j \in kept :
                             /\ id(j) = id(k)
                             /\ \A l \in kept : id(l) = id(k) => l <= j
             complete_record(k) ==
                 GameRow(Field(r.header, r.rows[k], "bgg_id"),
                         Field(r.header, r.rows[k], "primary_name"),
                         Field(r.header, r.rows[k], "last_updated"))
         IN ConcatAll([k \in 1..Len(r.rows) |->
                         IF k \in kept /\ firstOf(k)
                         THEN <<complete_record(lastOf(k))>> ELSE <<>>])

(* the orders in which list(set(...)) may give the ids of a set *)
ListsOf(ids) ==
    {l \in [1..Cardinality(ids) -> ids] :
        \A i, j \in 1..Cardinality(ids) : l[i] = l[j] => i = j}

(* the files earlier runs of fetch_bgg_games left: no file, an empty one,  *)
(* the header alone, with one row, with the rows of games 1 and 2 in       *)
(* either order, and a file of the old format, whose rows have no          *)
(* timestamp                                                               *)
GamesStores ==
    LET stored == {GameRow(id, "v1", t) :
                     id \in Range(BggIds), t \in {NowStamp, OldStamp}}
    IN {NoFile, File(<<>>), File(GamesHeader),
        File(<<"bgg_id", "primary_name", NL, "1", "v1", NL>>)}
       \cup {File(GamesHeader \o r) : r \in stored}
       \cup {File(GamesHeader \o p[1] \o p[2]) :
               p \in {q \in stored \X stored : {q[1][1], q[2][1]} = {"1", "2"}}}

(* the bgg_id column of the relations file *)
RelationFiles == UNION {[1..n -> Range(BggIds) \cup {""}] : n \in 0..MaxRelations}

InitGames ==
    /\ ctl = "games"
    /\ input \in RelationFiles
    /\ store \in GamesStores
    /\ openable = TRUE
    /\ buf = <<>>
    /\ pc = "start"
    /\ todo = <<>>
    /\ idx = 0
    /\ skip_count = 0
    /\ file_exists = FALSE
    /\ writer = FALSE
    /\ inflight = <<>>
    /\ cut = store
    /\ written = <<>>
    /\ unprocessed0 = <<>>
    /\ newCount = 0
    /\ processed_count = 0
    /\ prevEnd = "none"
    /\ prevStore = store
    /\ FetchIdle /\ MatchIdle /\ PureIdle

(* fetch_bgg_games.main, lines 34-101: the truncation, the ids to fetch,   *)
(* the early return, the reload of the rows to keep and the rewrite of the *)
(* file up to the rows kept                                                *)
GamesStartRun ==
    /\ ctl = "games"
    /\ BeginRun
    /\ LET f1 == truncate_incomplete_output(store)
           all_bgg_ids == get_unique_bgg_ids(input)
           processed_bgg_ids == get_processed_ids(f1, "bgg_id")
           stale_bgg_ids == get_stale_bgg_ids(f1)
           new_bgg_ids == Range(all_bgg_ids) \ processed_bgg_ids
       IN /\ cut' = f1
          /\ processed_count' = Cardinality(processed_bgg_ids)
          /\ \E unprocessed_bgg_ids \in ListsOf(new_bgg_ids \cup stale_bgg_ids) :
                /\ unprocessed0' = unprocessed_bgg_ids
                /\ todo' = unprocessed_bgg_ids
                /\ IF unprocessed_bgg_ids = <<>>
                   THEN /\ pc' = "done"
                        /\ store' = f1
                        /\ buf' = <<>>
                   ELSE /\ pc' = "loop"
                        /\ store' = File(<<>>)
                        /\ buf' = GamesHeader
                                  \o ConcatAll(existing_records(
                                         f1, Range(unprocessed_bgg_ids)))
    /\ UNCHANGED <<idx, skip_count, file_exists, writer>>

(* fetch_bgg_games.main, lines 105-170: the fetch of one id and            *)
(* writer.writerow(); a fetch without details writes the minimal record    *)
GamesWriteRow ==
    /\ ctl = "games"
    /\ pc = "loop"
    /\ todo # <<>>
    /\ inflight = <<>>
    /\ \E bgg_details \in {"details", "None"} :
          LET bgg_id == Head(todo)
              row == IF bgg_details = "details"
                     THEN GameRow(bgg_id, "v2", NowStamp)
                     ELSE GameRow(bgg_id, "", NowStamp)
          IN /\ buf' = buf \o row
             /\ inflight' = row
             /\ written' = Append(written, bgg_id)
    /\ UNCHANGED <<ctl, input, openable, store, pc, todo, idx, skip_count,
                   file_exists, writer, cut, unprocessed0, newCount,
                   processed_count, prevEnd, prevStore>>
    /\ UNCHANGED nonStoreVars

(* fetch_bgg_games.main, line 108: get_bgg_game_details ran out of         *)
(* attempts and raises; the with block closes the file on the way out      *)
GamesFetchRaises ==
    /\ ctl = "games"
    /\ pc = "loop"
    /\ todo # <<>>
    /\ inflight = <<>>
    /\ store' = File(store.content \o buf)
    /\ buf' = <<>>
    /\ pc' = "raised"
    /\ UNCHANGED <<ctl, input, openable, todo, idx, skip_count, file_exists,
                   writer, inflight, cut, written, unprocessed0, newCount,
                   processed_count, prevEnd, prevStore>>
    /\ UNCHANGED nonStoreVars

(* fetch_bgg_games.main, lines 171-172: csvfile.flush() and the end of the *)
(* iteration                                                               *)
GamesFlushRow ==
    /\ ctl = "games"
    /\ pc = "loop"
    /\ inflight # <<>>
    /\ store' = File(store.content \o buf)
    /\ buf' = <<>>
    /\ inflight' = <<>>
    /\ todo' = Tail(todo)
    /\ newCount' = newCount + 1
    /\ UNCHANGED <<ctl, input, openable, pc, idx, skip_count, file_exists,
                   writer, cut, written, unprocessed0, processed_count,
                   prevEnd, prevStore>>
    /\ UNCHANGED nonStoreVars

(* fetch_bgg_games.main, line 174: the with block closes the file *)
GamesFinish ==
    /\ ctl = "games"
    /\ pc = "loop"
    /\ todo = <<>>
    /\ inflight = <<>>
    /\ store' = File(store.content \o buf)
    /\ buf' = <<>>
    /\ pc' = "done"
    /\ UNCHANGED <<ctl, input, openable, todo, idx, skip_count, file_exists,
                   writer, inflight, cut, written, unprocessed0, newCount,
                   processed_count, prevEnd, prevStore>>
    /\ UNCHANGED nonStoreVars

NextGames ==
    \/ GamesStartRun
    \/ GamesWriteRow
    \/ GamesFetchRaises
    \/ GamesFlushRow
    \/ GamesFinish
    \/ Crash

SpecGames == InitGames /\ [][NextGames]_vars

(* the rows of a games file, each with its id, in file order *)
GameRowsOf(f) == DictRows(f).rows

(* the ids of the rows of a games file *)
GameIdsOf(f) == {GameRowsOf(f)[k][1] : k \in 1..Len(GameRowsOf(f))}

(* the rows a games file holds for an id *)
RowsFor(f, id) == {k \in 1..Len(GameRowsOf(f)) : GameRowsOf(f)[k][1] = id}

(* a stored row needs an update: it has no timestamp or an old one *)
IsStaleRow(header, line) == Field(header, line, "last_updated") # NowStamp

(* the ids the run found stale, and those it found new *)
StaleIds ==
    {Field(DictRows(cut).header, GameRowsOf(cut)[k], "bgg_id") :
        k \in {j \in 1..Len(GameRowsOf(cut)) :
                  IsStaleRow(DictRows(cut).header, GameRowsOf(cut)[j])}}

NewIds == Range(get_unique_bgg_ids(input)) \ GameIdsOf(cut)

(* C30: when a run of fetch_bgg_games without --reset has completed, the   *)
(* games file holds exactly one row per id: every id of the relations file *)
(* and every id the file held has one row and no other id has one, the row *)
(* of an id that was neither new nor stale is the stored row, and the row  *)
(* of a new or stale id was written in this run, with the details or as    *)
(* the minimal row.                                                        *)
C30_OneRowPerBggId ==
    (ctl = "games" /\ pc = "done") =>
        /\ PartialTail(store.content) = <<>>
        /\ GameIdsOf(store) = Range(get_unique_bgg_ids(input)) \cup GameIdsOf(cut)
        /\ \A id \in GameIdsOf(store) : Cardinality(RowsFor(store, id)) = 1
        /\ \A k \in 1..Len(GameRowsOf(cut)) :
              GameRowsOf(cut)[k][1] \notin (NewIds \cup StaleIds) =>
                 \E j \in 1..Len(GameRowsOf(store)) :
                    GameRowsOf(store)[j] = GameRowsOf(cut)[k]
        /\ \A id \in NewIds \cup StaleIds :
              /\ id \in Range(written)
              /\ \E j \in RowsFor(store, id) :
                    GameRowsOf(store)[j] \in {<<id, "v2", NowStamp>>,
                                              <<id, "", NowStamp>>}

(* a completed run has carried a fresh row over, has rewritten a stale row *)
(* and has written the row of a new id, one of them as the minimal row     *)
C30_Witness ==
    /\ ctl = "games"
    /\ pc = "done"
    /\ StaleIds # {}
    /\ NewIds # {}
    /\ GameIdsOf(cut) \ StaleIds # {}
    /\ \E j \in 1..Len(GameRowsOf(store)) : GameRowsOf(store)[j][2] = ""
    /\ \E j \in 1..Len(GameRowsOf(store)) : GameRowsOf(store)[j][2] = "v1"
====
